---- MODULE Spec2Model ----
(***************************************************************************)
(* The Jac -> Python code generation pass (PyCodeGenPass) as a state       *)
(* machine: one pass object walking one module AST, an enter step and an   *)
(* exit step per node, the emitted text kept per node in meta["py_code"]. *)
(*                                                                         *)
(* Text is a sequence of atoms: "\n" is the newline, " " is one space and  *)
(* every other atom is a run of characters holding neither a newline nor a *)
(* leading space, so str.replace("\n", ...) and " " * n act on atoms.      *)
(***************************************************************************)
EXTENDS Integers, Sequences, FiniteSets, TLC

\* ------------------------------------------------------------------ bounds
\* Longest list of children of a list-like node (items, params, vars, ...).
MaxList == 2
\* Most plain elements put around the element under study in a module.
MaxFill == 1

\* ------------------------------------------------------------------- text
NL == "\n"

\* " " * n; Python gives "" for n <= 0 and so does 1..n.
Spaces(n) == [i \in 1..n |-> " "]

\* s.replace("\n", "\n" + ind)
RECURSIVE Replace(_, _)
Replace(s, ind) ==
  IF s = <<>> THEN <<>>
  ELSE IF Len(s) = 1 THEN (IF s[1] = NL THEN <<NL>> \o ind ELSE s)
  ELSE LET h == Len(s) \div 2
       IN  Replace(SubSeq(s, 1, h), ind) \o Replace(SubSeq(s, h + 1, Len(s)), ind)

\* "".join(ts) and sep.join(ts) for a sequence of texts
RECURSIVE Join(_, _)
Join(sep, ts) ==
  IF ts = <<>> THEN <<>>
  ELSE IF Len(ts) = 1 THEN ts[1]
  ELSE ts[1] \o sep \o Join(sep, Tail(ts))

\* PyCodeGenPass.__init__: self.indent_size = 4
indent_size == 4

\* PyCodeGenPass.indent_str
indent_str(indent_level, indent_delta) == Spaces(indent_size * (indent_level + indent_delta))

\* emit_ln were it to indent the first line of s only
emit_ln_no_replace(code, s, indent_level, indent_delta) ==
  code \o indent_str(indent_level, indent_delta) \o s \o <<NL>>
\* PyCodeGenPass.emit_ln: the new value of the node's py_code
emit_ln(code, s, indent_level, indent_delta) ==
  code \o indent_str(indent_level, indent_delta)
       \o Replace(s, indent_str(indent_level, indent_delta))
       \o <<NL>>

\* PyCodeGenPass.emit: the new value of the node's py_code
emit(code, s) == code \o s

\* -------------------------------------------------------------------- AST
\* An AstNode: its class, the fields the pass reads that are not nodes
\* (Token.value, ArchHas.h_id as text; Import.is_absorb as flag) and its
\* sub objects in the order the handlers' doc comments list them. An absent
\* Optional sub object is None and keeps its place in kid.
Node(k, v, f, ks) == [kind |-> k, value |-> v, flag |-> f, kid |-> ks]
None == Node("None", <<>>, FALSE, <<>>)
\* Python's truth value of an Optional[AstNode]
Present(n) == n.kind # "None"

Token(v) == Node("Token", v, FALSE, <<>>)
Tok(a) == Token(<<a>>)

RECURSIVE NodeAt(_, _)
NodeAt(t, p) == IF p = <<>> THEN t ELSE NodeAt(t.kid[Head(p)], Tail(p))

\* The paths of the nodes of the tree t, the root's being <<>>.
RECURSIVE Paths(_)
Paths(t) ==
  {<<>>} \cup UNION {{<<i>> \o q : q \in Paths(t.kid[i])} :
                      i \in {j \in DOMAIN t.kid : Present(t.kid[j])}}


\* The sub objects of each node class, in the order of the handler's doc
\* comment (src/jaclang/jac/passes/py_codegen_pass.py).
Module(doc, body) == Node("Module", <<>>, FALSE, <<doc, body>>)
Elements(es) == Node("Elements", <<>>, FALSE, es)
GlobalVars(doc, access, assignments) ==
  Node("GlobalVars", <<>>, FALSE, <<doc, access, assignments>>)
ModuleCode(doc, body) == Node("ModuleCode", <<>>, FALSE, <<doc, body>>)
DocString(value) == Node("DocString", <<>>, FALSE, <<value>>)
Import(lang, path, alias, items, is_absorb) ==
  Node("Import", <<>>, is_absorb, <<lang, path, alias, items>>)
ModulePath(path) == Node("ModulePath", <<>>, FALSE, path)
ModuleItems(items) == Node("ModuleItems", <<>>, FALSE, items)
ModuleItem(name, alias) == Node("ModuleItem", <<>>, FALSE, <<name, alias>>)
Architype(name, typ, doc, access, base_classes, body) ==
  Node("Architype", <<>>, FALSE, <<name, typ, doc, access, base_classes, body>>)
BaseClasses(base_classes) == Node("BaseClasses", <<>>, FALSE, base_classes)
Ability(name, is_func, doc, access, signature, body) ==
  Node("Ability", <<>>, is_func, <<name, doc, access, signature, body>>)
ArchBlock(members) == Node("ArchBlock", <<>>, FALSE, members)
ArchHas(doc, access, vars, h_id) == Node("ArchHas", h_id, FALSE, <<doc, access, vars>>)
HasVarList(vars) == Node("HasVarList", <<>>, FALSE, vars)
HasVar(name, type_tag, value) == Node("HasVar", <<>>, FALSE, <<name, type_tag, value>>)
TypeSpec(typ, list_nest, dict_nest) ==
  Node("TypeSpec", <<>>, FALSE, <<typ, list_nest, dict_nest>>)
FuncSignature(params, return_type) ==
  Node("FuncSignature", <<>>, FALSE, <<params, return_type>>)
FuncParams(params) == Node("FuncParams", <<>>, FALSE, params)
ParamVar(name, type_tag, value) ==
  Node("ParamVar", <<>>, FALSE, <<name, type_tag, value>>)
CodeBlock(stmts) == Node("CodeBlock", <<>>, FALSE, stmts)
IfStmt(condition, body, elseifs, else_body) ==
  Node("IfStmt", <<>>, FALSE, <<condition, body, elseifs, else_body>>)
ElseIfs(elseifs) == Node("ElseIfs", <<>>, FALSE, elseifs)
ElseStmt(body) == Node("ElseStmt", <<>>, FALSE, <<body>>)
TryStmt(body, excepts, finally_body) ==
  Node("TryStmt", <<>>, FALSE, <<body, excepts, finally_body>>)
Except(typ, name, body) == Node("Except", <<>>, FALSE, <<typ, name, body>>)
ExceptList(excepts) == Node("ExceptList", <<>>, FALSE, excepts)
FinallyStmt(body) == Node("FinallyStmt", <<>>, FALSE, <<body>>)
CtrlStmt(ctrl) == Node("CtrlStmt", <<>>, FALSE, <<ctrl>>)
ReturnStmt(expr) == Node("ReturnStmt", <<>>, FALSE, <<expr>>)
Assignment(is_static, target, value) ==
  Node("Assignment", <<>>, is_static, <<target, value>>)
AssignmentList(values) == Node("AssignmentList", <<>>, FALSE, values)
Parse(name) == Node("Parse", name, FALSE, <<>>)
ArchCan(name, doc, access, signature, body) ==
  Node("ArchCan", <<>>, FALSE, <<name, doc, access, signature, body>>)
EventSignature(event, arch_tag_info) ==
  Node("EventSignature", <<>>, FALSE, <<event, arch_tag_info>>)
ReportStmt(expr) == Node("ReportStmt", <<>>, FALSE, <<expr>>)
IgnoreStmt(target) == Node("IgnoreStmt", <<>>, FALSE, <<target>>)
VisitStmt(typ, target, else_body) ==
  Node("VisitStmt", <<>>, FALSE, <<typ, target, else_body>>)
RevisitStmt(hops, else_body) == Node("RevisitStmt", <<>>, FALSE, <<hops, else_body>>)
DisengageStmt == Node("DisengageStmt", <<>>, FALSE, <<>>)
SyncStmt(target) == Node("SyncStmt", <<>>, FALSE, <<target>>)
IterForStmt(iter, condition, count_by, body) ==
  Node("IterForStmt", <<>>, FALSE, <<iter, condition, count_by, body>>)
InForStmt(name, collection, body) == Node("InForStmt", <<>>, FALSE, <<name, collection, body>>)
DictForStmt(k_name, v_name, collection, body) ==
  Node("DictForStmt", <<>>, FALSE, <<k_name, v_name, collection, body>>)
WhileStmt(condition, body) == Node("WhileStmt", <<>>, FALSE, <<condition, body>>)
Test(name, doc, description, body) ==
  Node("Test", <<>>, FALSE, <<name, doc, description, body>>)
ArchDecl(doc, access, typ, name, base_classes) ==
  Node("ArchDecl", <<>>, FALSE, <<doc, access, typ, name, base_classes>>)
ArchDef(doc, mod, arch, body) == Node("ArchDef", <<>>, FALSE, <<doc, mod, arch, body>>)
AbilityDecl(doc, access, name, signature, is_func) ==
  Node("AbilityDecl", <<>>, is_func, <<doc, access, name, signature>>)
AbilityDef(doc, mod, ability, body) ==
  Node("AbilityDef", <<>>, FALSE, <<doc, mod, ability, body>>)
AbilitySpec(doc, name, arch, mod, signature, body) ==
  Node("AbilitySpec", <<>>, FALSE, <<doc, name, arch, mod, signature, body>>)
ArchCanDecl(name, doc, access, signature) ==
  Node("ArchCanDecl", <<>>, FALSE, <<name, doc, access, signature>>)
ObjectRef(name) == Node("ObjectRef", <<>>, FALSE, <<name>>)
AbilityRef(name) == Node("AbilityRef", <<>>, FALSE, <<name>>)

\* ------------------------------------------------------- the exit handlers
\* Each handler gives the new value of node.meta["py_code"] of the node at
\* path p, from the meta m of the pass so far and the pass's indent_level.
\* m[p \o <<i>>] is node.<i-th sub object>.meta["py_code"].
Kid(m, p, i) == m[p \o <<i>>]
KidCodes(m, p, node) == [i \in DOMAIN node.kid |-> Kid(m, p, i)]
KidValues(node) == [i \in DOMAIN node.kid |-> node.kid[i].value]

\* for i in xs: self.emit(node, i)
RECURSIVE emit_each(_, _)
emit_each(code, ts) ==
  IF ts = <<>> THEN code ELSE emit_each(emit(code, Head(ts)), Tail(ts))

\* for i in xs: self.emit_ln(node, i, indent_delta)
RECURSIVE emit_ln_each(_, _, _, _)
emit_ln_each(code, ts, lvl, d) ==
  IF ts = <<>> THEN code
  ELSE emit_ln_each(emit_ln(code, Head(ts), lvl, d), Tail(ts), lvl, d)

exit_token(m, p, node, lvl) == emit(m[p], node.value)

exit_module(m, p, node, lvl) ==
  LET c1 == emit_ln(m[p], node.kid[1].value, lvl, 0)
  IN  emit(c1, Kid(m, p, 2))

\* exit_elements were it to take the elements last to first
exit_elements_reversed(m, p, node, lvl) ==
  emit_each(m[p], [i \in DOMAIN node.kid |-> Kid(m, p, Len(node.kid) + 1 - i)])
exit_elements(m, p, node, lvl) == emit_each(m[p], KidCodes(m, p, node))

exit_global_vars(m, p, node, lvl) == emit_ln(m[p], Kid(m, p, 3), lvl, 0)

exit_module_code(m, p, node, lvl) == emit(emit(m[p], Kid(m, p, 1)), Kid(m, p, 2))

exit_doc_string(m, p, node, lvl) ==
  IF node.kid[1].kind = "Token" THEN emit_ln(m[p], node.kid[1].value, lvl, 0)
  ELSE m[p]

exit_import(m, p, node, lvl) ==
  IF ~Present(node.kid[4])
  THEN IF ~Present(node.kid[3])
       THEN emit_ln(m[p], <<"import", " ">> \o Kid(m, p, 2), lvl, 0)
       ELSE emit_ln(m[p], <<"import", " ">> \o Kid(m, p, 2)
                            \o <<" ", "as", " ">> \o Kid(m, p, 3), lvl, 0)
  ELSE emit_ln(m[p], <<"from", " ">> \o Kid(m, p, 2)
                       \o <<" ", "import", " ">> \o Kid(m, p, 4), lvl, 0)

exit_module_path(m, p, node, lvl) == emit(m[p], Join(<<>>, KidValues(node)))

exit_module_items(m, p, node, lvl) ==
  emit(m[p], Join(<<",", " ">>, KidCodes(m, p, node)))

\* exit_module_item were it to drop the alias
exit_module_item_no_alias(m, p, node, lvl) == emit(m[p], node.kid[1].value)
exit_module_item(m, p, node, lvl) ==
  IF node.kid[2].kind = "Token"
  THEN emit(m[p], node.kid[1].value \o <<" ", "as", " ">> \o node.kid[2].value)
  ELSE emit(m[p], node.kid[1].value)

exit_architype(m, p, node, lvl) ==
  LET c1 == IF ~Present(node.kid[5])
            THEN emit_ln(m[p], <<"class", " ">> \o Kid(m, p, 1) \o <<":">>, lvl, 0)
            ELSE emit_ln(m[p], <<"class", " ">> \o Kid(m, p, 1) \o <<"(">>
                                 \o Kid(m, p, 5) \o <<")", ":">>, lvl, 0)
      c2 == emit_ln(c1, Kid(m, p, 3), lvl, 1)
  IN  emit(c2, Kid(m, p, 6))

exit_base_classes(m, p, node, lvl) ==
  emit(m[p], Join(<<",", " ">>, KidValues(node)))

exit_ability(m, p, node, lvl) ==
  LET c1 == emit_ln(m[p], <<"def", " ">> \o node.kid[1].value \o Kid(m, p, 4)
                            \o <<":">>, lvl, 0)
      c2 == emit_ln(c1, Kid(m, p, 2), lvl, 1)
  IN  emit(c2, Kid(m, p, 5))

exit_arch_block(m, p, node, lvl) == emit_ln_each(m[p], KidCodes(m, p, node), lvl, 0)

exit_arch_has(m, p, node, lvl) ==
  LET c1 == emit_ln(m[p], <<"def", " ", "has_">> \o node.value \o <<":">>, lvl, 0)
      c2 == emit_ln(c1, Kid(m, p, 1), lvl, 1)
  IN  emit_ln(c2, Kid(m, p, 3), lvl, 1)

\* exit_has_var_list were it to take the variables last to first
exit_has_var_list_reversed(m, p, node, lvl) ==
  emit_ln_each(m[p], [i \in DOMAIN node.kid |-> Kid(m, p, Len(node.kid) + 1 - i)], lvl, 0)
exit_has_var_list(m, p, node, lvl) ==
  emit_ln_each(m[p], KidCodes(m, p, node), lvl, 0)

exit_has_var(m, p, node, lvl) ==
  IF Present(node.kid[3])
  THEN emit(m[p], <<"self.">> \o node.kid[1].value \o <<":", " ">> \o Kid(m, p, 2)
                    \o <<" ", "=", " ">> \o Kid(m, p, 3))
  ELSE emit(m[p], <<"self.">> \o node.kid[1].value \o <<":", " ">> \o Kid(m, p, 2)
                    \o <<" ", "=", " ", "None">>)

exit_type_spec(m, p, node, lvl) ==
  IF Present(node.kid[3])
  THEN emit(m[p], <<"Dict[">> \o Kid(m, p, 2) \o <<",", " ">> \o Kid(m, p, 3) \o <<"]">>)
  ELSE IF Present(node.kid[2])
  THEN emit(m[p], <<"List[">> \o Kid(m, p, 2) \o <<"]">>)
  ELSE emit(m[p], node.kid[1].value)

exit_func_signature(m, p, node, lvl) ==
  LET c1 == emit(m[p], <<"(">>)
      c2 == IF Present(node.kid[1]) THEN emit(c1, Kid(m, p, 1)) ELSE c1
      c3 == emit(c2, <<")">>)
  IN  IF Present(node.kid[2]) THEN emit(c3, <<" ", "->", " ">> \o Kid(m, p, 2)) ELSE c3

\* the loop with first_out of exit_func_params
RECURSIVE func_params_loop(_, _, _)
func_params_loop(code, ts, first_out) ==
  IF ts = <<>> THEN code
  ELSE func_params_loop(
         emit(IF first_out THEN emit(code, <<",", " ">>) ELSE code, Head(ts)),
         Tail(ts), TRUE)

\* exit_func_params were it to end every parameter with ", "
exit_func_params_trailing_comma(m, p, node, lvl) ==
  emit_each(m[p], [i \in DOMAIN node.kid |-> Kid(m, p, i) \o <<",", " ">>])
exit_func_params(m, p, node, lvl) == func_params_loop(m[p], KidCodes(m, p, node), FALSE)

exit_param_var(m, p, node, lvl) ==
  IF Present(node.kid[3])
  THEN emit(m[p], node.kid[1].value \o <<":", " ">> \o Kid(m, p, 2)
                    \o <<" ", "=", " ">> \o Kid(m, p, 3))
  ELSE emit(m[p], node.kid[1].value \o <<":", " ">> \o Kid(m, p, 2))

exit_code_block(m, p, node, lvl) ==
  emit_ln_each(emit(m[p], <<NL>>), KidCodes(m, p, node), lvl, 1)

\* exit_if_stmt were it to emit the else before the else-ifs
exit_if_stmt_else_first(m, p, node, lvl) ==
  LET c1 == emit_ln(m[p], <<"if", " ">> \o Kid(m, p, 1) \o <<":">>, lvl, 0)
      c2 == emit_ln(c1, Kid(m, p, 2), lvl, 1)
      c3 == IF Present(node.kid[4]) THEN emit_ln(c2, Kid(m, p, 4), lvl, 0) ELSE c2
  IN  IF Present(node.kid[3]) THEN emit_ln(c3, Kid(m, p, 3), lvl, 0) ELSE c3
exit_if_stmt(m, p, node, lvl) ==
  LET c1 == emit_ln(m[p], <<"if", " ">> \o Kid(m, p, 1) \o <<":">>, lvl, 0)
      c2 == emit_ln(c1, Kid(m, p, 2), lvl, 1)
      c3 == IF Present(node.kid[3]) THEN emit_ln(c2, Kid(m, p, 3), lvl, 0) ELSE c2
  IN  IF Present(node.kid[4]) THEN emit_ln(c3, Kid(m, p, 4), lvl, 0) ELSE c3

\* for i in node.elseifs: the elif header from i.condition, the body from i.body
RECURSIVE else_ifs_loop(_, _, _, _, _, _)
else_ifs_loop(code, m, p, i, n, lvl) ==
  IF i > n THEN code
  ELSE LET c1 == emit_ln(code, <<"elif", " ">> \o m[p \o <<i, 1>>] \o <<":">>, lvl, 0)
           c2 == emit_ln(c1, m[p \o <<i, 2>>], lvl, 1)
       IN  else_ifs_loop(c2, m, p, i + 1, n, lvl)

exit_else_ifs(m, p, node, lvl) == else_ifs_loop(m[p], m, p, 1, Len(node.kid), lvl)

exit_else_stmt(m, p, node, lvl) ==
  emit_ln(emit_ln(m[p], <<"else", ":">>, lvl, 0), Kid(m, p, 1), lvl, 1)

exit_try_stmt(m, p, node, lvl) ==
  LET c1 == emit_ln(m[p], <<"try", ":">>, lvl, 0)
      c2 == emit_ln(c1, Kid(m, p, 1), lvl, 1)
      c3 == IF Present(node.kid[2]) THEN emit_ln(c2, Kid(m, p, 2), lvl, 0) ELSE c2
  IN  IF Present(node.kid[3]) THEN emit_ln(c3, Kid(m, p, 3), lvl, 0) ELSE c3

exit_except(m, p, node, lvl) ==
  LET c1 == IF Present(node.kid[2])
            THEN emit_ln(m[p], <<"except", " ">> \o Kid(m, p, 1) \o <<" ", "as", " ">>
                                 \o node.kid[2].value \o <<":">>, lvl, 0)
            ELSE emit_ln(m[p], <<"except", " ">> \o Kid(m, p, 1) \o <<":">>, lvl, 0)
  IN  emit_ln(c1, Kid(m, p, 3), lvl, 1)

exit_except_list(m, p, node, lvl) == emit_ln_each(m[p], KidCodes(m, p, node), lvl, 0)

exit_finally_stmt(m, p, node, lvl) ==
  emit_ln(emit_ln(m[p], <<"finally", ":">>, lvl, 0), Kid(m, p, 1), lvl, 1)

exit_iter_for_stmt(m, p, node, lvl) ==
  LET c1 == emit_ln(m[p], Kid(m, p, 1), lvl, 0)
      c2 == emit_ln(c1, <<"while", " ">> \o Kid(m, p, 2) \o <<":">>, lvl, 0)
      c3 == emit_ln(c2, Kid(m, p, 4), lvl, 1)
  IN  emit_ln(c3, Kid(m, p, 3), lvl, 1)

exit_in_for_stmt(m, p, node, lvl) ==
  emit_ln(emit_ln(m[p], <<"for", " ">> \o node.kid[1].value \o <<" ", "in", " ">>
                          \o Kid(m, p, 2) \o <<":">>, lvl, 0),
          Kid(m, p, 3), lvl, 1)

exit_dict_for_stmt(m, p, node, lvl) ==
  emit_ln(emit_ln(m[p], <<"for", " ">> \o node.kid[1].value \o <<",", " ">>
                          \o node.kid[2].value \o <<" ", "in", " ">>
                          \o Kid(m, p, 3) \o <<".items():">>, lvl, 0),
          Kid(m, p, 4), lvl, 1)

exit_while_stmt(m, p, node, lvl) ==
  emit_ln(emit_ln(m[p], <<"while", " ">> \o Kid(m, p, 1) \o <<":">>, lvl, 0),
          Kid(m, p, 2), lvl, 1)

\* exit_ctrl_stmt were it to emit every keyword, skip included
exit_ctrl_stmt_emit_skip(m, p, node, lvl) == emit_ln(m[p], node.kid[1].value, lvl, 0)
exit_ctrl_stmt(m, p, node, lvl) ==
  IF node.kid[1].value = <<"skip">> THEN m[p]
  ELSE emit_ln(m[p], node.kid[1].value, lvl, 0)

exit_return_stmt(m, p, node, lvl) ==
  IF Present(node.kid[1])
  THEN emit_ln(m[p], <<"return", " ">> \o Kid(m, p, 1), lvl, 0)
  ELSE emit_ln(m[p], <<"return">>, lvl, 0)

\* exit_parse emits nothing: it records an error and raises ValueError
exit_parse(m, p, node, lvl) == m[p]

exit_arch_can(m, p, node, lvl) ==
  LET c1 == IF Present(node.kid[4])
            THEN emit_ln(m[p], <<"def", " ">> \o node.kid[1].value \o Kid(m, p, 4)
                                 \o <<":">>, lvl, 0)
            ELSE emit_ln(m[p], <<"def", " ">> \o node.kid[1].value \o <<"(", ")", ":">>,
                         lvl, 0)
      c2 == emit_ln(c1, Kid(m, p, 2), lvl, 1)
  IN  emit_ln(c2, Kid(m, p, 5), lvl, 1)

\* exit_event_signature emits nothing: it records an error
exit_event_signature(m, p, node, lvl) == m[p]

\* The handlers of the data spatial statements emit nothing: each body is
\* the one call self.ds_feature_warn().
exit_report_stmt(m, p, node, lvl) == m[p]
exit_ignore_stmt(m, p, node, lvl) == m[p]
exit_visit_stmt(m, p, node, lvl) == m[p]
exit_revisit_stmt(m, p, node, lvl) == m[p]
exit_disengage_stmt(m, p, node, lvl) == m[p]
exit_sync_stmt(m, p, node, lvl) == m[p]

\* exit_test and the handlers of separate declarations and definitions only
\* warn (exit_warnings); exit_object_ref and exit_ability_ref are empty.
exit_test(m, p, node, lvl) == m[p]
exit_arch_decl(m, p, node, lvl) == m[p]
exit_arch_def(m, p, node, lvl) == m[p]
exit_ability_decl(m, p, node, lvl) == m[p]
exit_ability_def(m, p, node, lvl) == m[p]
exit_ability_spec(m, p, node, lvl) == m[p]
exit_arch_can_decl(m, p, node, lvl) == m[p]
exit_object_ref(m, p, node, lvl) == m[p]
exit_ability_ref(m, p, node, lvl) == m[p]

\* exit_assignment, exit_assignment_list: the bodies are empty
exit_assignment(m, p, node, lvl) == m[p]
exit_assignment_list(m, p, node, lvl) == m[p]


\* The dispatch of Pass.exit_node on the node's class: exit_<class>.
exit_code(m, p, node, lvl) ==
  CASE node.kind = "Token" -> exit_token(m, p, node, lvl)
    [] node.kind = "Module" -> exit_module(m, p, node, lvl)
    [] node.kind = "Elements" -> exit_elements(m, p, node, lvl)
    [] node.kind = "GlobalVars" -> exit_global_vars(m, p, node, lvl)
    [] node.kind = "ModuleCode" -> exit_module_code(m, p, node, lvl)
    [] node.kind = "DocString" -> exit_doc_string(m, p, node, lvl)
    [] node.kind = "Import" -> exit_import(m, p, node, lvl)
    [] node.kind = "ModulePath" -> exit_module_path(m, p, node, lvl)
    [] node.kind = "ModuleItems" -> exit_module_items(m, p, node, lvl)
    [] node.kind = "ModuleItem" -> exit_module_item(m, p, node, lvl)
    [] node.kind = "Architype" -> exit_architype(m, p, node, lvl)
    [] node.kind = "BaseClasses" -> exit_base_classes(m, p, node, lvl)
    [] node.kind = "Ability" -> exit_ability(m, p, node, lvl)
    [] node.kind = "ArchBlock" -> exit_arch_block(m, p, node, lvl)
    [] node.kind = "ArchHas" -> exit_arch_has(m, p, node, lvl)
    [] node.kind = "HasVarList" -> exit_has_var_list(m, p, node, lvl)
    [] node.kind = "HasVar" -> exit_has_var(m, p, node, lvl)
    [] node.kind = "TypeSpec" -> exit_type_spec(m, p, node, lvl)
    [] node.kind = "FuncSignature" -> exit_func_signature(m, p, node, lvl)
    [] node.kind = "FuncParams" -> exit_func_params(m, p, node, lvl)
    [] node.kind = "ParamVar" -> exit_param_var(m, p, node, lvl)
    [] node.kind = "CodeBlock" -> exit_code_block(m, p, node, lvl)
    [] node.kind = "IfStmt" -> exit_if_stmt(m, p, node, lvl)
    [] node.kind = "ElseIfs" -> exit_else_ifs(m, p, node, lvl)
    [] node.kind = "ElseStmt" -> exit_else_stmt(m, p, node, lvl)
    [] node.kind = "TryStmt" -> exit_try_stmt(m, p, node, lvl)
    [] node.kind = "Except" -> exit_except(m, p, node, lvl)
    [] node.kind = "ExceptList" -> exit_except_list(m, p, node, lvl)
    [] node.kind = "FinallyStmt" -> exit_finally_stmt(m, p, node, lvl)
    [] node.kind = "CtrlStmt" -> exit_ctrl_stmt(m, p, node, lvl)
    [] node.kind = "ReturnStmt" -> exit_return_stmt(m, p, node, lvl)
    [] node.kind = "Assignment" -> exit_assignment(m, p, node, lvl)
    [] node.kind = "AssignmentList" -> exit_assignment_list(m, p, node, lvl)
    [] node.kind = "Parse" -> exit_parse(m, p, node, lvl)
    [] node.kind = "ArchCan" -> exit_arch_can(m, p, node, lvl)
    [] node.kind = "EventSignature" -> exit_event_signature(m, p, node, lvl)
    [] node.kind = "ReportStmt" -> exit_report_stmt(m, p, node, lvl)
    [] node.kind = "IgnoreStmt" -> exit_ignore_stmt(m, p, node, lvl)
    [] node.kind = "VisitStmt" -> exit_visit_stmt(m, p, node, lvl)
    [] node.kind = "RevisitStmt" -> exit_revisit_stmt(m, p, node, lvl)
    [] node.kind = "DisengageStmt" -> exit_disengage_stmt(m, p, node, lvl)
    [] node.kind = "SyncStmt" -> exit_sync_stmt(m, p, node, lvl)
    [] node.kind = "IterForStmt" -> exit_iter_for_stmt(m, p, node, lvl)
    [] node.kind = "InForStmt" -> exit_in_for_stmt(m, p, node, lvl)
    [] node.kind = "DictForStmt" -> exit_dict_for_stmt(m, p, node, lvl)
    [] node.kind = "WhileStmt" -> exit_while_stmt(m, p, node, lvl)
    [] node.kind = "Test" -> exit_test(m, p, node, lvl)
    [] node.kind = "ArchDecl" -> exit_arch_decl(m, p, node, lvl)
    [] node.kind = "ArchDef" -> exit_arch_def(m, p, node, lvl)
    [] node.kind = "AbilityDecl" -> exit_ability_decl(m, p, node, lvl)
    [] node.kind = "AbilityDef" -> exit_ability_def(m, p, node, lvl)
    [] node.kind = "AbilitySpec" -> exit_ability_spec(m, p, node, lvl)
    [] node.kind = "ArchCanDecl" -> exit_arch_can_decl(m, p, node, lvl)
    [] node.kind = "ObjectRef" -> exit_object_ref(m, p, node, lvl)
    [] node.kind = "AbilityRef" -> exit_ability_ref(m, p, node, lvl)

\* ------------------------------------------------------ runtime hooks
\* The static methods of JacFeature (src/jaclang/plugin/feature.py).
Hooks ==
  {"make_architype", "elvis", "report", "ignore", "visit_node", "disengage", "edge_ref",
   "connect", "disconnect", "assign_compr", "get_root", "build_edge"}

\* ------------------------------------------------------------ diagnostics
\* The messages a handler hands to self.warning and self.error (without the
\* "Line n, " prefix: a node's line is not part of the model).
AccessMsg == "Access specifiers not supported in bootstrap Jac."
NonPyImportMsg == "Importing non-python modules not supported in bootstrap Jac."
IncludeMsg == "Includes not supported in bootstrap Jac."
SkipMsg == "skip is not supported in bootstrap Jac"
IncompleteMsg == "feature not implemented"
DsMsg == "Data spatial features not supported in bootstrap Jac."
EventMsg == "Event style abilities not supported in bootstrap Jac"
ParseMsg == "Parse node should not be in this AST!!"
TestMsg == "Test feature not supported in bootstrap Jac."
DeclDefMsg == "Separate declarations and definitions not supported in bootstrap Jac."

\* PyCodeGenPass.access_check, for the handlers that call it; the access
\* Token is sub object a of the node.
access_check(node, a) == IF Present(node.kid[a]) THEN <<AccessMsg>> ELSE <<>>

\* The handlers under @Pass.incomplete, among the classes of the model.
IncompleteKinds ==
  {"GlobalVars", "Import", "Architype", "Ability", "ArchBlock", "CtrlStmt", "ReturnStmt",
   "ArchCan", "EventSignature", "ReportStmt", "IgnoreStmt", "VisitStmt", "RevisitStmt",
   "DisengageStmt", "SyncStmt", "Test", "ArchDecl", "ArchDef", "AbilityDecl", "AbilityDef",
   "AbilitySpec", "ArchCanDecl"}

\* The classes whose handler is the one call self.decl_def_warn().
DeclDefKinds ==
  {"ArchDecl", "ArchDef", "AbilityDecl", "AbilityDef", "AbilitySpec", "ArchCanDecl"}
\* PyCodeGenPass.decl_def_warn
decl_def_warn == <<DeclDefMsg>>

\* The classes whose handler is the one call self.ds_feature_warn().
DataSpatialKinds ==
  {"ReportStmt", "IgnoreStmt", "VisitStmt", "RevisitStmt", "DisengageStmt", "SyncStmt"}
\* PyCodeGenPass.ds_feature_warn
ds_feature_warn == <<DsMsg>>

\* Pass.incomplete: the warning a marked handler attaches when it is visited.
incomplete(node) == IF node.kind \in IncompleteKinds THEN <<IncompleteMsg>> ELSE <<>>

exit_warnings(node) ==
  incomplete(node) \o
  CASE node.kind = "GlobalVars" -> access_check(node, 2)
    [] node.kind = "Architype" -> access_check(node, 4)
    [] node.kind = "Ability" -> access_check(node, 3)
    [] node.kind = "ArchCan" -> access_check(node, 3)
    [] node.kind \in DataSpatialKinds -> ds_feature_warn
    [] node.kind \in DeclDefKinds -> decl_def_warn
    [] node.kind = "Test" -> <<TestMsg>>
    [] node.kind = "Import" ->
         (IF node.kid[1].value # <<"py">> THEN <<NonPyImportMsg>> ELSE <<>>)
         \o (IF node.flag THEN <<IncludeMsg>> ELSE <<>>)
    [] OTHER -> <<>>

exit_errors(node) ==
  CASE node.kind = "CtrlStmt" ->
         (IF node.kid[1].value = <<"skip">> THEN <<SkipMsg>> ELSE <<>>)
    [] node.kind = "EventSignature" -> <<EventMsg>>
    [] node.kind = "Parse" -> <<ParseMsg>>
    [] OTHER -> <<>>

\* The handler ends in a raise statement: exit_parse raises ValueError.
exit_raises(node) == node.kind = "Parse"


\* Pass.exit_node: the meta after the handler of the node's class has run.
\* The handlers with an empty body touch nothing.
exit_node(m, p, node, lvl) ==
  IF node.kind \in {"Assignment", "AssignmentList", "ObjectRef", "AbilityRef"} THEN m
  ELSE [m EXCEPT ![p] = exit_code(m, p, node, lvl)]

\* enter_node were it to keep the py_code a node already has
enter_node_keep_old(m, lvl, p, node) ==
  [py_code |-> IF p \in DOMAIN m THEN m ELSE (p :> <<>>) @@ m, indent_level |-> lvl]
\* enter_node were it to skip the Assignment nodes, whose handler is empty
enter_node_only_emitting(m, lvl, p, node) ==
  [py_code |-> IF node.kind = "Assignment" THEN m
               ELSE [q \in DOMAIN m \cup {p} |-> IF q = p THEN <<>> ELSE m[q]],
   indent_level |-> lvl]
\* enter_node were it to raise indent_level on entering a CodeBlock
enter_node_indent_block(m, lvl, p, node) ==
  [py_code |-> [q \in DOMAIN m \cup {p} |-> IF q = p THEN <<>> ELSE m[q]],
   indent_level |-> IF node.kind = "CodeBlock" THEN lvl + 1 ELSE lvl]
\* PyCodeGenPass.enter_node: node.meta["py_code"] = "" for the node at p;
\* the pass's indent_level is left as it is.
enter_node(m, lvl, p, node) ==
  [py_code |-> [q \in DOMAIN m \cup {p} |-> IF q = p THEN <<>> ELSE m[q]],
   indent_level |-> lvl]

\* ----------------------------------------------------------------- inputs
\* The modules the pass is run on: one element under study, of every shape
\* below, with up to MaxFill plain imports before and after it.
Lists(S, n) == UNION {[1..k -> S] : k \in 1..n}
Prefixes(s, n) == {SubSeq(s, 1, k) : k \in 1..(IF n < Len(s) THEN n ELSE Len(s))}

OneLineDoc == Tok("\"doc\"")
TwoLineDoc == Token(<<"\"\"\"a", NL, "b\"\"\"">>)
DocSet == {DocString(None), DocString(OneLineDoc), DocString(TwoLineDoc)}
NoDoc == DocString(None)

IntType == TypeSpec(Tok("int"), None, None)
StrListType == TypeSpec(Tok("list"), TypeSpec(Tok("str"), None, None), None)
DictType == TypeSpec(Tok("dict"), TypeSpec(Tok("str"), None, None), IntType)

ItemSet == {ModuleItem(Tok("pi"), None), ModuleItem(Tok("sin"), Tok("s"))}
ImportSet ==
  {Import(Tok("py"), ModulePath(<<Tok("math")>>), a, it, FALSE) :
     a \in {None, Tok("m")},
     it \in {None} \cup {ModuleItems(l) : l \in Lists(ItemSet, MaxList)}}
  \cup {Import(Tok("jac"), ModulePath(<<Tok("os"), Tok("."), Tok("path")>>),
               None, None, TRUE)}

HasVarSet == {HasVar(Tok("x"), IntType, Tok("5")), HasVar(Tok("y"), StrListType, None)}
ArchHasSet ==
  {ArchHas(d, None, HasVarList(l), <<"1">>) : d \in DocSet, l \in Lists(HasVarSet, MaxList)}
PlainHas == ArchHas(NoDoc, None, HasVarList(<<HasVar(Tok("z"), DictType, None)>>), <<"2">>)
BaseNames == <<Tok("A"), Tok("B"), Tok("C"), Tok("D")>>
ArchitypeSet ==
  {Architype(Tok("Foo"), Tok("object"), d, None, b, ArchBlock(<<>>)) :
     d \in DocSet,
     b \in {None} \cup {BaseClasses(l) : l \in Prefixes(BaseNames, MaxList)}}
  \cup {Architype(Tok("Foo"), Tok("node"), NoDoc, None, None, ArchBlock(<<h>> \o t)) :
          h \in ArchHasSet, t \in {<<>>, <<PlainHas>>}}

Break == CtrlStmt(Tok("break"))
Continue == CtrlStmt(Tok("continue"))
Return == ReturnStmt(None)
ReturnX == ReturnStmt(Tok("x"))
PlainBody == CodeBlock(<<Break>>)
InnerIf == IfStmt(Tok("c"), PlainBody, None, ElseStmt(CodeBlock(<<Continue>>)))
BodySet == {PlainBody, CodeBlock(<<ReturnX, InnerIf>>)}
CondNames == <<"p", "q", "r", "s">>
ElifSeq ==
  [i \in 1..Len(CondNames) |->
     IfStmt(Tok(CondNames[i]),
            IF i % 2 = 1 THEN CodeBlock(<<Continue>>) ELSE CodeBlock(<<InnerIf>>),
            None, None)]
IfSet ==
  {IfStmt(Tok("a"), b, ei, el) :
     b \in BodySet,
     ei \in {None} \cup {ElseIfs(l) : l \in Prefixes(ElifSeq, MaxList)},
     el \in {None, ElseStmt(CodeBlock(<<Return>>))}}
ExceptSet == {Except(Tok("E"), None, PlainBody), Except(Tok("F"), Tok("e"), PlainBody)}
TrySet ==
  {TryStmt(PlainBody, ex, fin) :
     ex \in {None} \cup {ExceptList(l) : l \in Lists(ExceptSet, MaxList)},
     fin \in {None, FinallyStmt(PlainBody)}}

ParamSet == {ParamVar(Tok("a"), IntType, None), ParamVar(Tok("b"), IntType, Tok("1"))}
SignatureSet ==
  {FuncSignature(ps, rt) :
     ps \in {None} \cup {FuncParams(l) : l \in Lists(ParamSet, MaxList)},
     rt \in {None, IntType}}
PlainSignature == FuncSignature(None, None)
AbilitySet ==
  {Ability(Tok("f"), TRUE, DocString(OneLineDoc), None, sg, CodeBlock(<<ReturnX>>)) :
     sg \in SignatureSet}
  \cup {Ability(Tok("g"), TRUE, NoDoc, None, PlainSignature, CodeBlock(<<st>>)) :
          st \in IfSet \cup TrySet}

OtherSet ==
  {GlobalVars(NoDoc, None, AssignmentList(<<Assignment(FALSE, Tok("g"), Tok("1"))>>)),
   ModuleCode(DocString(OneLineDoc), CodeBlock(<<InnerIf, Break>>))}

Skip == CtrlStmt(Tok("skip"))
SkipSet == {ModuleCode(NoDoc, CodeBlock(<<Skip, Continue>>))}

DataSpatialSet ==
  {ModuleCode(NoDoc, CodeBlock(<<VisitStmt(None, Tok("t"), None), IgnoreStmt(Tok("t")),
                                  DisengageStmt>>)),
   ModuleCode(NoDoc, CodeBlock(<<ReportStmt(Tok("x")), SyncStmt(Tok("t")),
                                  RevisitStmt(None, ElseStmt(PlainBody)),
                                  VisitStmt(Tok("E"), Tok("t"), ElseStmt(PlainBody))>>))}

Priv == Tok("priv")
EventSet == {EventSignature(Tok("entry"), None), EventSignature(Tok("exit"), Tok("T"))}
ArchCanSet ==
  {ArchCan(Tok("f"), NoDoc, a, sg, PlainBody) :
     a \in {None, Priv}, sg \in {None, PlainSignature} \cup EventSet}
  \cup {ArchCan(Tok("f"), DocString(OneLineDoc), None, PlainSignature, PlainBody)}
MemberSet ==
  ArchCanSet \cup {ArchHas(NoDoc, Priv, HasVarList(<<HasVar(Tok("x"), IntType, Tok("5"))>>),
                            <<"1">>)}
\* Each class that has an access specifier, with the specifier there.
AccessSet ==
  {Architype(Tok("Foo"), Tok("walker"), NoDoc, None, None, ArchBlock(<<mb>>)) :
     mb \in MemberSet}
  \cup {Architype(Tok("Foo"), Tok("walker"), NoDoc, Priv, None,
                  ArchBlock(<<ArchCan(Tok("f"), NoDoc, Priv, None, PlainBody)>>)),
         GlobalVars(NoDoc, Priv, AssignmentList(<<Assignment(FALSE, Tok("g"), Tok("1"))>>)),
         Ability(Tok("f"), TRUE, NoDoc, Priv, PlainSignature, CodeBlock(<<ReturnX>>))}

\* A test, and the declarations and definitions that stand apart.
DeclDefSet ==
  {Test(Tok("t1"), NoDoc, Tok("\"d\""), PlainBody),
   ArchDecl(NoDoc, Priv, Tok("walker"), Tok("Foo"), None),
   ArchDef(NoDoc, None, ObjectRef(Tok("Foo")),
           ArchBlock(<<ArchCanDecl(Tok("f"), NoDoc, None, None)>>)),
   AbilityDecl(NoDoc, None, Tok("f"), PlainSignature, TRUE),
   AbilityDef(NoDoc, None, AbilityRef(Tok("f")), PlainBody),
   AbilitySpec(NoDoc, Tok("f"), ObjectRef(Tok("Foo")), None, None, PlainBody)}

\* The loops, one of them inside another.
LoopSet ==
  {ModuleCode(NoDoc, CodeBlock(<<InForStmt(Tok("v"), Tok("xs"), PlainBody)>>)),
   ModuleCode(NoDoc,
              CodeBlock(<<WhileStmt(Tok("c"),
                                    CodeBlock(<<DictForStmt(Tok("k"), Tok("v"), Tok("d"),
                                                            PlainBody),
                                                Continue>>))>>)),
   ModuleCode(NoDoc,
              CodeBlock(<<IterForStmt(Assignment(FALSE, Tok("i"), Tok("0")), Tok("c"),
                                      Tok("i+=1"), PlainBody)>>))}

\* A tree the parser has left a Parse node in.
ParseSet == {Parse(<<"element">>)}

ElementSet ==
  ImportSet \cup ArchitypeSet \cup AbilitySet \cup OtherSet \cup SkipSet
    \cup DataSpatialSet \cup AccessSet \cup ParseSet \cup LoopSet
    \cup DeclDefSet

PlainImport == Import(Tok("py"), ModulePath(<<Tok("os")>>), None, None, FALSE)
Fill(n) == [i \in 1..n |-> PlainImport]
ElementLists ==
  {<<>>} \cup {Fill(a) \o <<e>> \o Fill(b) :
                 e \in ElementSet, a \in 0..MaxFill, b \in 0..MaxFill}
ModuleSet == {Module(Tok("\"\"\"mod\"\"\""), Elements(es)) : es \in ElementLists}
                \cup {Module(TwoLineDoc, Elements(<<>>))}


\* ------------------------------------------------------------------ state
VARIABLES
  ast,           \* the module's tree
  py_code,       \* node.meta["py_code"], by the node's path; absent when not in DOMAIN
  indent_level,  \* PyCodeGenPass.indent_level
  warnings,      \* the pass's warnings, in the order recorded
  errors,        \* the pass's errors, in the order recorded
  cur,           \* the path of the node the traversal is at
  phase,         \* "enter": before enter_node(cur); "exit": before exit_node(cur)
  pc,            \* "run": a pass is under way; "done": it has returned;
                 \* "raised": a handler has raised an exception
  run,           \* how many passes have been started on the tree
  prev,          \* py_code as the previous pass left it
  removed,       \* the child unlinked before this pass: [at, idx], idx = 0 for none
  call,          \* the last call of emit_ln on its own: [before, s, indent_delta, n]
  sched,         \* a schedule being executed: its passes, the one running, the log
  cli,           \* a command line process: command, arguments, output, exit code
  fs,            \* the directory tree under the process's working directory
  feat           \* the hook surface: the plug-in manager and the last hook call

pass_vars ==
  <<ast, py_code, indent_level, warnings, errors, cur, phase, pc, run, prev, removed, call>>
vars == <<pass_vars, sched, cli, fs, feat>>

NoMeta == [q \in {} |-> <<>>]
NoRemoval == [at |-> <<>>, idx |-> 0]
NoCall == [before |-> <<>>, s |-> <<>>, indent_delta |-> 0, n |-> 0]

\* PyCodeGenPass.__init__: self.indent_level = 0
InitIndentLevel == 0

\* No schedule, no process and no hook call under way.
NoSched ==
  [name |-> "", next |-> 0, running |-> FALSE, fatal |-> FALSE, log |-> <<>>, meta |-> {}]
NoCli == [pc |-> "none"]
NoFs == [dirs |-> {}, files |-> {}, links |-> {}]
NoFeat == [registered |-> {}, calls |-> 0]

Init ==
  /\ ast \in ModuleSet
  /\ py_code = NoMeta
  /\ indent_level = InitIndentLevel
  /\ warnings = <<>>
  /\ errors = <<>>
  /\ cur = <<>>
  /\ phase = "enter"
  /\ pc = "run"
  /\ run = 1
  /\ prev = NoMeta
  /\ removed = NoRemoval
  /\ call = NoCall
  /\ sched = NoSched /\ cli = NoCli /\ fs = NoFs /\ feat = NoFeat

\* The traversal of Pass.traverse: enter_node, then the sub objects that are
\* there, in order, then exit_node.
Front(s) == SubSeq(s, 1, Len(s) - 1)
Last(s) == s[Len(s)]
PresentAfter(node, i) == {j \in DOMAIN node.kid : j > i /\ Present(node.kid[j])}
Min(S) == CHOOSE x \in S : \A y \in S : x <= y

Enter ==
  /\ pc = "run" /\ phase = "enter"
  /\ LET node == NodeAt(ast, cur)
         r == enter_node(py_code, indent_level, cur, node)
     IN  /\ py_code' = r.py_code
         /\ indent_level' = r.indent_level
         /\ IF PresentAfter(node, 0) # {}
            THEN cur' = cur \o <<Min(PresentAfter(node, 0))>> /\ phase' = "enter"
            ELSE cur' = cur /\ phase' = "exit"
  /\ UNCHANGED <<ast, warnings, errors, pc, run, prev, removed, call>>
  /\ UNCHANGED <<sched, cli, fs, feat>>

Exit ==
  /\ pc = "run" /\ phase = "exit"
  /\ LET node == NodeAt(ast, cur)
     IN  /\ py_code' = exit_node(py_code, cur, node, indent_level)
         /\ warnings' = warnings \o exit_warnings(node)
         /\ errors' = errors \o exit_errors(node)
  /\ IF exit_raises(NodeAt(ast, cur))
     THEN pc' = "raised" /\ UNCHANGED <<cur, phase>>
     ELSE IF cur = <<>>
     THEN pc' = "done" /\ UNCHANGED <<cur, phase>>
     ELSE LET parent == NodeAt(ast, Front(cur))
              rest == PresentAfter(parent, Last(cur))
          IN  /\ pc' = pc
              /\ IF rest # {}
                 THEN cur' = Front(cur) \o <<Min(rest)>> /\ phase' = "enter"
                 ELSE cur' = Front(cur) /\ phase' = "exit"
  /\ UNCHANGED <<ast, indent_level, run, prev, removed, call>>
  /\ UNCHANGED <<sched, cli, fs, feat>>

\* A second pass object is run on the tree as the first pass left it.
Rerun ==
  /\ pc = "done" /\ run = 1
  /\ pc' = "run" /\ run' = run + 1
  /\ cur' = <<>> /\ phase' = "enter"
  /\ indent_level' = InitIndentLevel /\ warnings' = <<>> /\ errors' = <<>>
  /\ prev' = py_code /\ removed' = NoRemoval
  /\ UNCHANGED <<ast, py_code, call>>
  /\ UNCHANGED <<sched, cli, fs, feat>>

\* The list-like node classes: the sub objects are the items of one list.
ListKinds == {"Elements", "ModuleItems", "FuncParams", "HasVarList", "ExceptList", "ArchBlock"}
\* The fewest items the grammar gives such a list.
MinItems(kind) == IF kind \in {"Elements", "ArchBlock"} THEN 0 ELSE 1

RemoveAt(s, i) == SubSeq(s, 1, i - 1) \o SubSeq(s, i + 1, Len(s))
RECURSIVE RemoveKid(_, _, _)
RemoveKid(t, p, i) ==
  IF p = <<>> THEN [t EXCEPT !.kid = RemoveAt(t.kid, i)]
  ELSE [t EXCEPT !.kid[Head(p)] = RemoveKid(t.kid[Head(p)], Tail(p), i)]

IsPrefix(p, q) == Len(p) <= Len(q) /\ SubSeq(q, 1, Len(p)) = p
\* The path a node of the tree without item i of the node at p had before.
OldPath(q, p, i) ==
  IF IsPrefix(p, q) /\ Len(q) > Len(p) /\ q[Len(p) + 1] >= i
  THEN [q EXCEPT ![Len(p) + 1] = @ + 1]
  ELSE q

\* One item of a list-like node is unlinked from the tree, every other node
\* keeping its meta, and a second pass object is run on the tree.
RerunWithout(p, i) ==
  /\ pc = "done" /\ run = 1
  /\ NodeAt(ast, p).kind \in ListKinds
  /\ i \in DOMAIN NodeAt(ast, p).kid
  /\ Len(NodeAt(ast, p).kid) > MinItems(NodeAt(ast, p).kind)
  /\ ast' = RemoveKid(ast, p, i)
  /\ py_code' = [q \in Paths(ast') |-> py_code[OldPath(q, p, i)]]
  /\ pc' = "run" /\ run' = run + 1
  /\ cur' = <<>> /\ phase' = "enter"
  /\ indent_level' = InitIndentLevel /\ warnings' = <<>> /\ errors' = <<>>
  /\ prev' = py_code /\ removed' = [at |-> p, idx |-> i]
  /\ UNCHANGED call
  /\ UNCHANGED <<sched, cli, fs, feat>>

Next ==
  \/ Enter
  \/ Exit
  \/ Rerun
  \/ \E p \in DOMAIN py_code : \E i \in 1..(MaxList + 2 * MaxFill + 1) : RerunWithout(p, i)

Spec == Init /\ [][Next]_vars


\* ------------------------------------------------- emit_ln, call by call
\* One call of emit_ln on a node, for every text already emitted on the node,
\* every text s and every indent_delta within the bounds, and every
\* indent_level a pass object may hold: the node is the tree's root and
\* py_code[<<>>] its meta.
MaxLen == 3       \* longest text s, and longest text already on the node
MaxLevel == 2     \* largest indent_level
MaxDelta == 2     \* largest indent_delta; the least is -1

RECURSIVE Texts(_)
Texts(n) ==
  IF n = 0 THEN {<<>>}
  ELSE Texts(n - 1) \cup {t \o <<a>> : t \in {u \in Texts(n - 1) : Len(u) = n - 1},
                                        a \in {"x", NL}}

InitEmit ==
  /\ ast = Module(Tok("\"\"\"mod\"\"\""), Elements(<<>>))
  /\ py_code \in {(<<>> :> t) : t \in Texts(MaxLen)}
  /\ indent_level \in 0..MaxLevel
  /\ warnings = <<>>
  /\ errors = <<>>
  /\ cur = <<>>
  /\ phase = "exit"
  /\ pc = "emit"
  /\ run = 1
  /\ prev = NoMeta
  /\ removed = NoRemoval
  /\ call = NoCall
  /\ sched = NoSched /\ cli = NoCli /\ fs = NoFs /\ feat = NoFeat

EmitLn(s, indent_delta) ==
  /\ pc = "emit" /\ call.n = 0
  /\ py_code' = [py_code EXCEPT ![cur] = emit_ln(py_code[cur], s, indent_level, indent_delta)]
  /\ call' = [before |-> py_code[cur], s |-> s, indent_delta |-> indent_delta,
              n |-> call.n + 1]
  /\ UNCHANGED <<ast, indent_level, warnings, errors, cur, phase, pc, run, prev, removed>>
  /\ UNCHANGED <<sched, cli, fs, feat>>

NextEmit == \E s \in Texts(MaxLen) : \E d \in -1..MaxDelta : EmitLn(s, d)

SpecEmit == InitEmit /\ [][NextEmit]_vars


\* --------------------------------------------------------- pass schedules
\* The schedules of src/jaclang/jac/passes/main/schedules.py: lists of pass
\* classes, each class standing by its name.
\* py_code_gen were DefUsePass listed ahead of SymTabBuildPass
py_code_gen_def_use_early ==
  <<"SubNodeTabPass", "ImportPass", "DefUsePass", "SymTabBuildPass", "DeclDefMatchPass",
    "PyastGenPass">>
py_code_gen ==
  <<"SubNodeTabPass", "ImportPass", "SymTabBuildPass", "DeclDefMatchPass", "DefUsePass",
    "PyastGenPass">>
py_compiler == py_code_gen \o <<"PyOutPass">>
format_pass == <<"JacFormatPass">>
Schedules ==
  [py_code_gen |-> py_code_gen, py_compiler |-> py_compiler, format_pass |-> format_pass]

\* The pass state of a specification that runs no code generation pass.
IdlePass ==
  /\ ast = Module(Tok("\"\"\"mod\"\"\""), Elements(<<>>))
  /\ py_code = NoMeta
  /\ indent_level = InitIndentLevel
  /\ warnings = <<>>
  /\ errors = <<>>
  /\ cur = <<>>
  /\ phase = "enter"
  /\ pc = "idle"
  /\ run = 1
  /\ prev = NoMeta
  /\ removed = NoRemoval
  /\ call = NoCall

\* Executing a schedule: for each pass in order, instantiate it, run it on
\* the AST, inspect its sink; after a fatal error the passes left are
\* skipped. sched.meta holds the passes whose meta is on the AST, and the log
\* keeps, for each start, the meta the pass found there.
InitSchedule ==
  /\ IdlePass
  /\ sched \in {[name |-> n, next |-> 1, running |-> FALSE, fatal |-> FALSE,
                  log |-> <<>>, meta |-> {}] : n \in DOMAIN Schedules}
  /\ cli = NoCli /\ fs = NoFs /\ feat = NoFeat

\* What the sink of a pass that has returned holds.
Outcomes == {"clean", "errors", "fatal"}

StartPass ==
  /\ ~sched.running /\ ~sched.fatal
  /\ sched.next <= Len(Schedules[sched.name])
  /\ sched' = [sched EXCEPT
                 !.running = TRUE,
                 !.log = Append(@, [ev |-> "start", pass |-> Schedules[sched.name][sched.next],
                                    seen |-> sched.meta, sink |-> "clean"])]
  /\ UNCHANGED <<pass_vars, cli, fs, feat>>

FinishPass(outcome) ==
  /\ sched.running
  /\ sched' = [sched EXCEPT
                 !.running = FALSE,
                 !.fatal = (outcome = "fatal"),
                 !.next = @ + 1,
                 !.meta = @ \cup {Schedules[sched.name][sched.next]},
                 !.log = Append(@, [ev |-> "finish",
                                    pass |-> Schedules[sched.name][sched.next],
                                    seen |-> sched.meta, sink |-> outcome])]
  /\ UNCHANGED <<pass_vars, cli, fs, feat>>

NextSchedule == StartPass \/ \E outcome \in Outcomes : FinishPass(outcome)

SpecSchedule == InitSchedule /\ [][NextSchedule]_vars


\* ------------------------------------------------------ command line
\* One process started by start_cli (src/jaclang/cli/cli.py) with one
\* command, in a working directory whose tree is fs. A path is the sequence
\* of names from the working directory, which is <<>>.
MaxDepth == 2     \* deepest directory below the working directory
MaxDirs == 3      \* most directories in the tree

\* Constants.JAC_GEN_DIR and the local py_cache of clean
JAC_GEN_DIR == "__jac_gen__"
py_cache == "__pycache__"

DirNames == {JAC_GEN_DIR, py_cache, "pkg"}
RECURSIVE Trees(_)
\* The sets of at most k directories, each below the working directory or
\* below another of the set, none deeper than MaxDepth.
Trees(k) ==
  IF k = 0 THEN {{}}
  ELSE LET smaller == Trees(k - 1)
       IN  smaller \cup
           UNION {{t \cup {d \o <<n>>} : n \in DirNames,
                                         d \in {x \in t \cup {<<>>} : Len(x) < MaxDepth}} :
                  t \in smaller}
\* The trees: up to MaxDirs directories, a file m.py in none of them, in the
\* working directory only, or in it and in every directory, and possibly a
\* symbolic link to a directory, named __pycache__, in the working directory.
FsSet ==
  UNION {{[dirs |-> ds, files |-> {d \o <<"m.py">> : d \in fd}, links |-> ls] :
            fd \in {{}, {<<>>}, ds \cup {<<>>}},
            ls \in SUBSET ({<<py_cache>>} \ ds)} :
         ds \in Trees(MaxDirs)}

\* filename.endswith(suffix), a name being the sequence of its characters
EndsWith(name, suffix) ==
  /\ Len(name) >= Len(suffix)
  /\ SubSeq(name, Len(name) - Len(suffix) + 1, Len(name)) = suffix
DotJac == <<".", "j", "a", "c">>
Filenames ==
  {<<"a", ".", "j", "a", "c">>, <<"a", ".", "p", "y">>, <<"j", "a", "c">>,
   <<"a", ".", "j", "a", "c", ".", "t", "x", "t">>}

\* The lines the commands print.
NotJacMsg == "Not a .jac file."
ImportErrorsMsg == "Errors occurred while importing the module."
ToolErrorMsg(tool) == "Error while running ast tool " \o tool \o ", check args."
ToolNotFoundMsg(tool) == "Ast tool " \o tool \o " not found."
DoneMsg == "Done cleaning."

\* What the code outside this file does when called: __jac_import__ gives a
\* module, gives None (errors occurred) or raises; an AST tool or an entry
\* point returns or raises; a test suite passes or fails.
ImportOutcomes == {"module", "none", "raises"}
CallOutcomes == {"returns", "raises"}
\* The attributes of AstTool, and the names a tool is asked for by.
AstToolNames == {"ir"}
ToolNames == {"ir", "missing", ""}

\* start_cli is about to look the command up. The fields command, arg,
\* ext and out are those of the last command run: its name, its file or
\* tool, what the code outside did, and the lines it printed.
InitCli ==
  /\ IdlePass
  /\ sched = NoSched /\ feat = NoFeat
  /\ fs \in FsSet
  /\ cli = [pc |-> "start", shell |-> FALSE, command |-> "", arg |-> <<>>, ext |-> "",
            out |-> <<>>, exit_code |-> 0, pending |-> <<>>, fs0 |-> fs]

\* A command may be run: the one start_cli was given, or one more typed into
\* the command shell.
Ready == cli.pc \in {"start", "shell"}

\* A command is over. Run by start_cli, the process ends: start_cli has
\* returned (exit code 0) or an exception has left it (exit code 1). Run in
\* the command shell, the shell asks for the next command; the shell may
\* catch an exception or let it end the process.
Finished(command, arg, ext, out, raised) ==
  LET last == [cli EXCEPT !.command = command, !.arg = arg, !.ext = ext, !.out = out,
                          !.pending = <<>>]
      ended == [last EXCEPT !.pc = "exited", !.exit_code = IF raised THEN 1 ELSE 0]
      again == [last EXCEPT !.pc = "shell"]
  IN  IF ~cli.shell THEN {ended}
      ELSE IF raised THEN {ended, again}
      ELSE {again}

\* start_cli with no command, or with one the registry does not know:
\* CommandShell(cmd_registry).cmdloop()
ShellStart ==
  /\ cli.pc = "start"
  /\ cli' = [cli EXCEPT !.pc = "shell", !.shell = TRUE]
  /\ UNCHANGED <<pass_vars, sched, fs, feat>>

\* cmdloop returns, and start_cli after it.
ShellEnd ==
  /\ cli.pc = "shell"
  /\ cli' = [cli EXCEPT !.pc = "exited", !.exit_code = 0]
  /\ UNCHANGED <<pass_vars, sched, fs, feat>>

\* run(filename, main)
CmdRun(filename, imp) ==
  /\ Ready
  /\ cli' \in IF EndsWith(filename, DotJac)
              THEN Finished("run", filename, imp, <<>>, imp = "raises")
              ELSE Finished("run", filename, "", <<NotJacMsg>>, FALSE)
  /\ UNCHANGED <<pass_vars, sched, fs, feat>>

\* enter(filename, entrypoint, args)
CmdEnter(filename, imp, entry) ==
  /\ Ready
  /\ cli' \in IF EndsWith(filename, DotJac)
              THEN IF imp = "raises" THEN Finished("enter", filename, imp, <<>>, TRUE)
                   ELSE IF imp = "none"
                   THEN Finished("enter", filename, imp, <<ImportErrorsMsg>>, FALSE)
                   ELSE Finished("enter", filename, entry, <<>>, entry = "raises")
              ELSE Finished("enter", filename, "", <<NotJacMsg>>, FALSE)
  /\ UNCHANGED <<pass_vars, sched, fs, feat>>

\* test(filename): mod.__jac_suite__ raises AttributeError when mod is None;
\* TextTestRunner().run returns whether the suite passes or fails.
CmdTest(filename, imp, suite) ==
  /\ Ready
  /\ cli' \in IF EndsWith(filename, DotJac)
              THEN IF imp = "module" THEN Finished("test", filename, suite, <<>>, FALSE)
                   ELSE Finished("test", filename, imp, <<>>, TRUE)
              ELSE Finished("test", filename, "", <<NotJacMsg>>, FALSE)
  /\ UNCHANGED <<pass_vars, sched, fs, feat>>

\* ast_tool(tool, args): with or without args the tool is called, and what
\* it gives is printed.
CmdAstTool(tool, outcome) ==
  /\ Ready
  /\ cli' \in IF tool \in AstToolNames
              THEN IF outcome = "raises"
                   THEN Finished("ast_tool", tool, "tool raises", <<ToolErrorMsg(tool)>>,
                                 FALSE)
                   ELSE Finished("ast_tool", tool, "tool returns", <<"result">>, FALSE)
              ELSE Finished("ast_tool", tool, "tool not found", <<ToolNotFoundMsg(tool)>>,
                            FALSE)
  /\ UNCHANGED <<pass_vars, sched, fs, feat>>

\* clean(): os.walk(current_dir, topdown=True) yields one directory at a
\* time, the walk going on into the sub directories listed for it.
Parent(x) == SubSeq(x, 1, Len(x) - 1)
Name(x) == x[Len(x)]
Under(x, d) == Len(x) >= Len(d) /\ SubSeq(x, 1, Len(d)) = d
\* dirs of the walk: the directories of root, links to directories included
SubDirs(f, root) == {d \in f.dirs \cup f.links : Parent(d) = root}
\* clean's test on folder_name were it to leave py_cache out
to_remove_jac_gen_only(f, root) == {d \in SubDirs(f, root) : Name(d) = JAC_GEN_DIR}
\* the folders clean hands to shutil.rmtree
to_remove(f, root) ==
  {d \in SubDirs(f, root) : Name(d) = JAC_GEN_DIR \/ Name(d) = py_cache}
\* shutil.rmtree(d) for each d of ds
rmtree(f, ds) ==
  [dirs |-> {x \in f.dirs : \A d \in ds : ~Under(x, d)},
   files |-> {x \in f.files : \A d \in ds : ~Under(x, d)},
   links |-> f.links]
\* the line printed for a folder removed, the folder as its path from the
\* working directory
RemovedMsg(d) == <<"Removed folder: ", d>>
\* the lines printed for the folders removed, in the order they were removed
RemovedMsgs(ds) == [i \in DOMAIN ds |-> RemovedMsg(ds[i])]
\* The orders a directory's entries can be listed in: os.walk gives them as
\* os.scandir does, in whatever order the file system has them.
Orders(S) == {q \in [1..Cardinality(S) -> S] : \A x \in S : \E i \in DOMAIN q : q[i] = x}

CleanStart ==
  /\ Ready
  /\ cli' = [cli EXCEPT !.pc = "walk", !.command = "clean", !.arg = <<>>, !.ext = "",
                        !.out = <<>>, !.pending = <<(<<>>)>>, !.fs0 = fs]
  /\ UNCHANGED <<pass_vars, sched, fs, feat>>

\* One directory of the walk, its sub directories listed in some order and
\* gone through in that order. A directory removed since it was listed is
\* passed over (os.walk ignores the error of listing it). shutil.rmtree
\* raises OSError on a symbolic link: the folders handed to it before are
\* gone, the ones listed after stay.
CleanVisit ==
  /\ cli.pc = "walk" /\ cli.pending # <<>>
  /\ LET root == Head(cli.pending)
         rest == Tail(cli.pending)
         rm == to_remove(fs, root)
     IN  IF root # <<>> /\ root \notin fs.dirs
         THEN /\ cli' = [cli EXCEPT !.pending = rest]
              /\ fs' = fs
         ELSE \E dirs \in Orders(SubDirs(fs, root)) :
                LET hits == SelectSeq(dirs, LAMBDA d : d \in rm)
                    bad == {i \in DOMAIN hits : hits[i] \in fs.links}
                IN  IF bad # {}
                    THEN LET done == SubSeq(hits, 1, Min(bad) - 1)
                         IN  /\ fs' = rmtree(fs, {done[i] : i \in DOMAIN done})
                             /\ cli' \in Finished("clean", <<>>, "raises",
                                                  cli.out \o RemovedMsgs(done), TRUE)
                    ELSE /\ fs' = rmtree(fs, rm)
                         /\ cli' = [cli EXCEPT
                                      !.pending =
                                        SelectSeq(dirs, LAMBDA d : d \notin fs.links) \o rest,
                                      !.out = @ \o RemovedMsgs(hits)]
  /\ UNCHANGED <<pass_vars, sched, feat>>

CleanDone ==
  /\ cli.pc = "walk" /\ cli.pending = <<>>
  /\ cli' \in Finished("clean", <<>>, "done", Append(cli.out, DoneMsg), FALSE)
  /\ UNCHANGED <<pass_vars, sched, fs, feat>>

NextCli ==
  \/ ShellStart
  \/ ShellEnd
  \/ \E f \in Filenames : \E imp \in ImportOutcomes : CmdRun(f, imp)
  \/ \E f \in Filenames : \E imp \in ImportOutcomes : \E e \in CallOutcomes : CmdEnter(f, imp, e)
  \/ \E f \in Filenames : \E imp \in ImportOutcomes : \E t \in {"passes", "fails"} :
       CmdTest(f, imp, t)
  \/ \E tool \in ToolNames : \E t \in CallOutcomes : CmdAstTool(tool, t)
  \/ CleanStart
  \/ CleanVisit
  \/ CleanDone

SpecCli == InitCli /\ [][NextCli]_vars


\* ------------------------------------------------------ hook surface
\* JacFeature (src/jaclang/plugin/feature.py): one plug-in manager pm,
\* made with the class, and twelve static methods. A method's value here is
\* the call it makes on pm.hook: the hook's name and the keyword arguments.
MaxCalls == 2     \* most calls of the surface in one behaviour

Values == {"a", "b"}                 \* what is passed to a method
Results == {"r1", "r2"}              \* what a call of a hook of pm gives back
Default == "JacFeatureDefaults"
Plugins == {Default, "Alternative"}

\* the parameters of each static method, in order
Params(h) ==
  CASE h = "make_architype" -> <<"arch_type", "on_entry", "on_exit">>
    [] h = "elvis" -> <<"op1", "op2">>
    [] h = "report" -> <<"expr">>
    [] h = "ignore" -> <<"walker", "expr">>
    [] h = "visit_node" -> <<"walker", "expr">>
    [] h = "disengage" -> <<"walker">>
    [] h = "edge_ref" -> <<"node_obj", "dir", "filter_type">>
    [] h = "connect" -> <<"left", "right", "edge_spec">>
    [] h = "disconnect" -> <<"op1", "op2", "op">>
    [] h = "assign_compr" -> <<"target", "attr_val">>
    [] h = "get_root" -> <<>>
    [] h = "build_edge" -> <<"edge_dir", "conn_type", "conn_assign">>

make_architype(arch_type, on_entry, on_exit) ==
  [hook |-> "make_architype",
   kwargs |-> [arch_type |-> arch_type, on_entry |-> on_entry, on_exit |-> on_exit]]
elvis(op1, op2) == [hook |-> "elvis", kwargs |-> [op1 |-> op1, op2 |-> op2]]
report(expr) == [hook |-> "report", kwargs |-> [expr |-> expr]]
ignore(walker, expr) == [hook |-> "ignore", kwargs |-> [walker |-> walker, expr |-> expr]]
visit_node(walker, expr) ==
  [hook |-> "visit_node", kwargs |-> [walker |-> walker, expr |-> expr]]
disengage(walker) == [hook |-> "disengage", kwargs |-> [walker |-> walker]]
edge_ref(node_obj, dir, filter_type) ==
  [hook |-> "edge_ref",
   kwargs |-> [node_obj |-> node_obj, dir |-> dir, filter_type |-> filter_type]]
connect(left, right, edge_spec) ==
  [hook |-> "connect", kwargs |-> [left |-> left, right |-> right, edge_spec |-> edge_spec]]
\* disconnect were it to hand its first two arguments over crossed
disconnect_crossed(op1, op2, op) ==
  [hook |-> "disconnect", kwargs |-> [op1 |-> op2, op2 |-> op1, op |-> op]]
disconnect(op1, op2, op) ==
  [hook |-> "disconnect", kwargs |-> [op1 |-> op1, op2 |-> op2, op |-> op]]
assign_compr(target, attr_val) ==
  [hook |-> "assign_compr", kwargs |-> [target |-> target, attr_val |-> attr_val]]
get_root == [hook |-> "get_root", kwargs |-> <<>>]
build_edge(edge_dir, conn_type, conn_assign) ==
  [hook |-> "build_edge",
   kwargs |-> [edge_dir |-> edge_dir, conn_type |-> conn_type, conn_assign |-> conn_assign]]

\* JacFeature.<h>(*a)
JacFeature(h, a) ==
  CASE h = "make_architype" -> make_architype(a[1], a[2], a[3])
    [] h = "elvis" -> elvis(a[1], a[2])
    [] h = "report" -> report(a[1])
    [] h = "ignore" -> ignore(a[1], a[2])
    [] h = "visit_node" -> visit_node(a[1], a[2])
    [] h = "disengage" -> disengage(a[1])
    [] h = "edge_ref" -> edge_ref(a[1], a[2], a[3])
    [] h = "connect" -> connect(a[1], a[2], a[3])
    [] h = "disconnect" -> disconnect(a[1], a[2], a[3])
    [] h = "assign_compr" -> assign_compr(a[1], a[2])
    [] h = "get_root" -> get_root
    [] h = "build_edge" -> build_edge(a[1], a[2], a[3])

NoHookCall == [method |-> "", args |-> <<>>, hook |-> "", kwargs |-> <<>>,
               result |-> "", returned |-> ""]

\* The class body has run: pm made, the hook specs added, the defaults
\* registered.
InitFeature ==
  /\ IdlePass
  /\ sched = NoSched /\ cli = NoCli /\ fs = NoFs
  /\ feat = [registered |-> {Default}, calls |-> 0, last |-> NoHookCall]

\* One call of a static method: the call on pm.hook, whose result the
\* method returns.
Call(h, a, r) ==
  /\ feat.calls < MaxCalls
  /\ LET c == JacFeature(h, a)
     IN  feat' = [feat EXCEPT !.calls = @ + 1,
                              !.last = [method |-> h, args |-> a, hook |-> c.hook,
                                        kwargs |-> c.kwargs, result |-> r, returned |-> r]]
  /\ UNCHANGED <<pass_vars, sched, cli, fs>>

\* An alternative implementation is registered with pm.
Register(p) ==
  /\ p \notin feat.registered
  /\ feat' = [feat EXCEPT !.registered = @ \cup {p}]
  /\ UNCHANGED <<pass_vars, sched, cli, fs>>

NextFeature ==
  \/ \E h \in Hooks : \E a \in [1..Len(Params(h)) -> Values] : \E r \in Results : Call(h, a, r)
  \/ \E p \in Plugins : Register(p)

SpecFeature == InitFeature /\ [][NextFeature]_vars


\* ------------------------------------------------------------ reading text
\* The lines of a text: t.split("\n").
RECURSIVE Lines(_)
Lines(t) ==
  IF t = <<>> THEN <<(<<>>)>>
  ELSE IF Len(t) = 1 THEN (IF t[1] = NL THEN <<(<<>>), (<<>>)>> ELSE <<t>>)
  ELSE LET h == Len(t) \div 2
           a == Lines(SubSeq(t, 1, h))
           b == Lines(SubSeq(t, h + 1, Len(t)))
       IN  SubSeq(a, 1, Len(a) - 1) \o <<a[Len(a)] \o b[1]>> \o SubSeq(b, 2, Len(b))

RECURSIVE LeadingSpaces(_)
LeadingSpaces(line) ==
  IF line = <<>> \/ Head(line) # " " THEN 0 ELSE 1 + LeadingSpaces(Tail(line))
\* line.lstrip(" ")
Strip(line) == SubSeq(line, LeadingSpaces(line) + 1, Len(line))
\* an empty or whitespace-only line
Blank(line) == Strip(line) = <<>>

NotBlankLine(line) == ~Blank(line)
NotBlankLines(ls) == SelectSeq(ls, NotBlankLine)
\* the lines that are not blank, without their indentation
Content(t) ==
  LET ls == NotBlankLines(Lines(t)) IN [i \in DOMAIN ls |-> Strip(ls[i])]
AtMargin(line) == LeadingSpaces(line) = 0
AtMarginLines(ls) == SelectSeq(ls, AtMargin)
\* the lines that are not blank and start at the text's own margin
MarginLines(t) == AtMarginLines(NotBlankLines(Lines(t)))
NewlineCount(t) == Len(Lines(t)) - 1

\* ----------------------------------------------------------------- claims

\* C1: emit_ln(node, s, indent_delta) leaves the text already in py_code as a
\* prefix and appends, for each line of s in order, one line made of
\* 4 * (indent_level + indent_delta) spaces (none when that is negative)
\* followed by the line of s, each line ended by a newline.
C1_EmitLnAppendsIndentedLines ==
  (pc = "emit" /\ call.n = 1) =>
    LET new == py_code[cur]
        added == SubSeq(new, Len(call.before) + 1, Len(new))
        ind == Spaces(4 * (indent_level + call.indent_delta))
        want == Lines(call.s)
        got == Lines(added)
    IN  /\ Len(new) > Len(call.before)
        /\ SubSeq(new, 1, Len(call.before)) = call.before
        /\ new[Len(new)] = NL
        /\ Len(got) = Len(want) + 1
        /\ got[Len(got)] = <<>>
        /\ \A i \in DOMAIN want : got[i] = ind \o want[i]

\* C1 witness: a text of several lines emitted with a positive indentation
\* after text that was already there.
C1_Witness ==
  /\ pc = "emit" /\ call.n = 1
  /\ call.before # <<>>
  /\ NewlineCount(call.s) >= 1
  /\ indent_level + call.indent_delta >= 2

\* The number of CodeBlock nodes the node at p lies in: its block nesting.
BlockDepth(t, p) ==
  Cardinality({k \in 0..(Len(p) - 1) : NodeAt(t, SubSeq(p, 1, k)).kind = "CodeBlock"})

\* C2 as stated: while a node is handled indent_level is the node's block
\* nesting depth, and it is 0 when the pass has ended.
C2_IndentLevelTracksBlockDepth ==
  /\ (pc = "run" /\ phase = "exit") => indent_level = BlockDepth(ast, cur)
  /\ pc = "done" => indent_level = 0

\* C2 amended: indent_level is 0 from the construction of the pass on, while
\* every node is entered and handled at whatever block nesting depth, and
\* when the pass has ended.
C2_IndentLevelStaysZero == (pc \in {"run", "done"}) => indent_level = 0

\* C2 witness: the handler of a node two blocks deep is about to run.
C2_Witness ==
  /\ pc = "run" /\ phase = "exit"
  /\ BlockDepth(ast, cur) >= 2
  /\ NodeAt(ast, cur).kind = "CtrlStmt"
  /\ indent_level = 0

\* C3: when the pass is done the module's py_code is not empty and is the
\* doc string and a newline followed by the py_code of the elements of its
\* Elements node, in document order, with nothing between them.
C3_ModuleIsDocThenElements ==
  pc = "done" =>
    /\ py_code[<<>>] # <<>>
    /\ py_code[<<>>] =
         ast.kid[1].value \o <<NL>>
           \o Join(<<>>, [i \in DOMAIN ast.kid[2].kid |-> py_code[<<2, i>>]])

\* C3 witness: a finished pass on a module of two elements with different text.
C3_Witness ==
  /\ pc = "done"
  /\ Len(ast.kid[2].kid) >= 2
  /\ py_code[<<2, 1>>] # py_code[<<2, 2>>]
  /\ py_code[<<2, 1>>] # <<>> /\ py_code[<<2, 2>>] # <<>>

\* C4: when the pass is done every node of the tree has a py_code entry,
\* whatever its class and whether or not its handler emits.
C4_EveryNodeHasPyCode == pc = "done" => \A q \in Paths(ast) : q \in DOMAIN py_code

\* C4 witness: a finished pass on a tree with a node whose handler is empty
\* and a node whose handler emits.
C4_Witness ==
  /\ pc = "done"
  /\ \E q \in Paths(ast) : NodeAt(ast, q).kind = "Assignment" /\ py_code[q] = <<>>
  /\ \E q \in Paths(ast) : NodeAt(ast, q).kind = "Token" /\ py_code[q] # <<>>

\* C5: a second pass on the unchanged tree leaves every node with the
\* py_code the first pass left it with.
C5_SecondRunSameText == (pc = "done" /\ run = 2 /\ removed.idx = 0) => py_code = prev

\* C5 witness: the second pass on an unchanged tree is done and the module's
\* text spans several lines.
C5_Witness ==
  /\ pc = "done" /\ run = 2 /\ removed.idx = 0
  /\ NewlineCount(py_code[<<>>]) >= 3


\* What a list-like node puts between its items and after each of them.
Separator(kind) == IF kind \in {"ModuleItems", "FuncParams"} THEN <<",", " ">> ELSE <<>>
LineEnd(kind) == IF kind \in {"HasVarList", "ExceptList", "ArchBlock"} THEN <<NL>> ELSE <<>>
Decorated(kind, ts) == Join(Separator(kind), [i \in DOMAIN ts |-> ts[i] \o LineEnd(kind)])
\* What leaves the node's text with an item of text c: the item and its
\* line end, or the item and one separator.
Contribution(kind, c) ==
  IF Separator(kind) # <<>>
  THEN {c, c \o Separator(kind), Separator(kind) \o c}
  ELSE {c \o LineEnd(kind)}

\* C6: the text of a list-like node (Elements, ModuleItems, FuncParams,
\* HasVarList, ExceptList, ArchBlock) is the texts of its items in document
\* order, with the class's separator between them or line end after each;
\* with one item unlinked, the next pass gives the other items the texts they
\* had, and the node the text it had with one piece cut out, that piece being
\* the unlinked item's text and its separator or line end.
C6_ListTextIsItemsInOrder ==
  pc = "done" =>
    /\ \A q \in Paths(ast) :
         NodeAt(ast, q).kind \in ListKinds =>
           py_code[q] = Decorated(NodeAt(ast, q).kind,
                                  [i \in DOMAIN NodeAt(ast, q).kid |-> py_code[q \o <<i>>]])
    /\ removed.idx # 0 =>
         LET p == removed.at
             i == removed.idx
             kind == NodeAt(ast, p).kind
             old == prev[p]
             new == py_code[p]
         IN  /\ \A j \in DOMAIN NodeAt(ast, p).kid :
                  py_code[p \o <<j>>] = prev[p \o <<IF j < i THEN j ELSE j + 1>>]
             /\ \E a \in 0..Len(new) : \E cut \in Contribution(kind, prev[p \o <<i>>]) :
                  old = SubSeq(new, 1, a) \o cut \o SubSeq(new, a + 1, Len(new))

\* C6 witness: the second pass is done on a tree from which the first of
\* several parameters was unlinked.
C6_Witness ==
  /\ pc = "done" /\ removed.idx = 1
  /\ NodeAt(ast, removed.at).kind = "FuncParams"
  /\ Len(NodeAt(ast, removed.at).kid) >= 1
  /\ py_code[removed.at] # prev[removed.at]

\* The import line the claim gives for an Import node, from the node's tokens.
ItemText(item) ==
  item.kid[1].value
    \o (IF Present(item.kid[2]) THEN <<" ", "as", " ">> \o item.kid[2].value ELSE <<>>)
ImportLine(node) ==
  LET X == Join(<<>>, [i \in DOMAIN node.kid[2].kid |-> node.kid[2].kid[i].value])
      items == node.kid[4].kid
  IN  IF Present(node.kid[4])
      THEN <<"from", " ">> \o X \o <<" ", "import", " ">>
             \o Join(<<",", " ">>, [i \in DOMAIN items |-> ItemText(items[i])])
      ELSE IF Present(node.kid[3])
      THEN <<"import", " ">> \o X \o <<" ", "as", " ">> \o node.kid[3].value
      ELSE <<"import", " ">> \o X

\* C7: the text of an Import node of the target language is one line:
\* "import X" without alias and items, "import X as A" with an alias only,
\* "from X import ..." with items, the items in document order, separated by
\* ", ", each "name as alias" when it has an alias and "name" when not.
C7_ImportIsOneLineOfItsForm ==
  pc = "done" =>
    \A q \in Paths(ast) :
      (NodeAt(ast, q).kind = "Import" /\ NodeAt(ast, q).kid[1].value = <<"py">>) =>
        /\ py_code[q] = ImportLine(NodeAt(ast, q)) \o <<NL>>
        /\ NewlineCount(py_code[q]) = 1

\* C7 witness: a finished pass on an import with two items, one with an alias
\* and one without.
C7_Witness ==
  /\ pc = "done"
  /\ \E q \in Paths(ast) :
       /\ NodeAt(ast, q).kind = "Import"
       /\ Present(NodeAt(ast, q).kid[4])
       /\ \E i, j \in DOMAIN NodeAt(ast, q).kid[4].kid :
            /\ Present(NodeAt(ast, q).kid[4].kid[i].kid[2])
            /\ ~Present(NodeAt(ast, q).kid[4].kid[j].kid[2])

\* The header line of an Architype, from the node's tokens.
ClassHeader(node) ==
  <<"class", " ">> \o node.kid[1].value
    \o (IF Present(node.kid[5])
        THEN <<"(">> \o Join(<<",", " ">>, [i \in DOMAIN node.kid[5].kid |->
                                               node.kid[5].kid[i].value]) \o <<")">>
        ELSE <<>>)
    \o <<":">>
\* The lines of a DocString one level in; no line when there is no doc string.
IndentedDoc(doc) ==
  IF ~Present(doc.kid[1]) THEN <<>>
  ELSE LET ls == Lines(doc.kid[1].value)
       IN  Join(<<>>, [i \in DOMAIN ls |-> Spaces(indent_size) \o ls[i] \o <<NL>>])

\* C8 as stated: the text of an Architype is the header line "class N:" or
\* "class N(Bases):", then the doc string one level in, then the body's text;
\* without a doc string nothing stands between the header line and the body.
C8_ArchitypeIsHeaderDocBody ==
  pc = "done" =>
    \A q \in Paths(ast) :
      NodeAt(ast, q).kind = "Architype" =>
        py_code[q] = ClassHeader(NodeAt(ast, q)) \o <<NL>>
                       \o IndentedDoc(NodeAt(ast, q).kid[3])
                       \o py_code[q \o <<6>>]

\* The text of a TypeSpec, a HasVar's assignment and an ArchHas's lines as
\* the claim gives them, from the nodes' tokens.
RECURSIVE TypeText(_)
TypeText(ts) ==
  IF Present(ts.kid[3])
  THEN <<"Dict[">> \o TypeText(ts.kid[2]) \o <<",", " ">> \o TypeText(ts.kid[3]) \o <<"]">>
  ELSE IF Present(ts.kid[2]) THEN <<"List[">> \o TypeText(ts.kid[2]) \o <<"]">>
  ELSE ts.kid[1].value
HasVarLine(hv) ==
  <<"self.">> \o hv.kid[1].value \o <<":", " ">> \o TypeText(hv.kid[2]) \o <<" ", "=", " ">>
    \o (IF Present(hv.kid[3]) THEN hv.kid[3].value ELSE <<"None">>)
HasVarLines(has) == [i \in DOMAIN has.kid[3].kid |-> HasVarLine(has.kid[3].kid[i])]
DocLines(doc) == IF Present(doc.kid[1]) THEN Content(doc.kid[1].value) ELSE <<>>
ArchHasLines(has) ==
  <<(<<"def", " ", "has_">> \o has.value \o <<":">>)>> \o DocLines(has.kid[1])
    \o HasVarLines(has)
\* ls occurs in ms as consecutive lines, after the first line of ms
OccursAfterFirst(ls, ms) ==
  \E k \in 1..(Len(ms) - Len(ls)) : SubSeq(ms, k + 1, k + Len(ls)) = ls

\* C9: the lines of an ArchHas's text that are not blank are, indentation
\* aside, the header "def has_<id>:", the lines of the doc string and then one
\* line per HasVar in document order, "self.<name>: <T> = <value>" with the
\* value's token or "None" without a value; and the Architype whose body holds
\* the ArchHas has these assignment lines, in this order, after its header.
C9_ArchHasIsHeaderDocAssignments ==
  pc = "done" =>
    \A q \in Paths(ast) :
      NodeAt(ast, q).kind = "ArchHas" =>
        /\ Content(py_code[q]) = ArchHasLines(NodeAt(ast, q))
        /\ (Len(q) >= 2 /\ NodeAt(ast, SubSeq(q, 1, Len(q) - 2)).kind = "Architype") =>
             OccursAfterFirst(HasVarLines(NodeAt(ast, q)),
                              Content(py_code[SubSeq(q, 1, Len(q) - 2)]))

\* C9 witness: a finished pass on an object whose has statement declares a
\* variable with a value and then one without.
C9_Witness ==
  /\ pc = "done"
  /\ \E q \in Paths(ast) :
       /\ NodeAt(ast, q).kind = "ArchHas"
       /\ Len(NodeAt(ast, q).kid[3].kid) = 2
       /\ Present(NodeAt(ast, q).kid[3].kid[1].kid[3])
       /\ ~Present(NodeAt(ast, q).kid[3].kid[2].kid[3])
       /\ NodeAt(ast, SubSeq(q, 1, Len(q) - 2)).kind = "Architype"

\* The header lines of an IfStmt, from the node's tokens.
ElseIfsOf(node) == IF Present(node.kid[3]) THEN node.kid[3].kid ELSE <<>>
IfHeader(kw, cond) == <<kw, " ">> \o cond.value \o <<":">>
IfHeaders(node) ==
  <<IfHeader("if", node.kid[1])>>
    \o [i \in DOMAIN ElseIfsOf(node) |-> IfHeader("elif", ElseIfsOf(node)[i].kid[1])]
    \o (IF Present(node.kid[4]) THEN <<(<<"else", ":">>)>> ELSE <<>>)

\* C10: in the text of an IfStmt the lines at the statement's own margin are
\* the "if cond:" header, then one "elif cond:" header per else-if in
\* document order, then "else:" when there is an else and only then; and each
\* header is followed by the lines of its own body.
C10_IfThenElifsThenElse ==
  pc = "done" =>
    \A q \in Paths(ast) :
      NodeAt(ast, q).kind = "IfStmt" =>
        LET node == NodeAt(ast, q)
            H == IfHeaders(node)
            n == Len(ElseIfsOf(node))
        IN  /\ MarginLines(py_code[q]) = H
            /\ Content(py_code[q]) =
                 <<H[1]>> \o Content(py_code[q \o <<2>>])
                   \o Join(<<>>, [i \in 1..n |->
                                    <<H[1 + i]>> \o Content(py_code[q \o <<3, i, 2>>])])
                   \o (IF Present(node.kid[4])
                       THEN <<H[n + 2]>> \o Content(py_code[q \o <<4, 1>>])
                       ELSE <<>>)

\* C10 witness: a finished pass on an if statement with two else-ifs and an
\* else whose body holds another if statement with an else.
C10_Witness ==
  /\ pc = "done"
  /\ \E q \in Paths(ast) :
       /\ NodeAt(ast, q).kind = "IfStmt"
       /\ Len(ElseIfsOf(NodeAt(ast, q))) >= 2
       /\ Present(NodeAt(ast, q).kid[4])
       /\ \E i \in DOMAIN NodeAt(ast, q).kid[2].kid :
            /\ NodeAt(ast, q).kid[2].kid[i].kind = "IfStmt"
            /\ Present(NodeAt(ast, q).kid[2].kid[i].kid[4])

\* The members of a sequence, and the diagnostics a step adds to a sink.
Range(s) == {s[i] : i \in DOMAIN s}
Added(old, new) == SubSeq(new, Len(old) + 1, Len(new))
\* The node about to be handled: the traversal is at its exit step.
Handling(kinds) == pc = "run" /\ phase = "exit" /\ NodeAt(ast, cur).kind \in kinds

\* C11: handling a Ctrl statement whose keyword is break or continue emits
\* the keyword as one line and records no error; handling one whose keyword
\* is skip records the error and emits nothing; when the pass has ended each
\* Ctrl statement still holds that text.
CtrlText(node) ==
  IF node.kid[1].value = <<"skip">> THEN <<>> ELSE node.kid[1].value \o <<NL>>
C11_CtrlKeywordOrDiagnostic ==
  [][/\ Handling({"CtrlStmt"}) =>
          LET node == NodeAt(ast, cur)
          IN  /\ node.kid[1].value \in {<<"break">>, <<"continue">>, <<"skip">>}
              /\ py_code'[cur] = CtrlText(node)
              /\ errors' = IF node.kid[1].value = <<"skip">>
                            THEN Append(errors, SkipMsg) ELSE errors
     /\ pc' = "done" =>
          \A q \in Paths(ast') :
            NodeAt(ast', q).kind = "CtrlStmt" => py_code'[q] = CtrlText(NodeAt(ast', q))
    ]_vars

\* C11 witness: a finished pass on a block holding skip and continue: the
\* skip node's text is empty, the error is in the sink, continue is a line.
C11_Witness ==
  /\ pc = "done"
  /\ errors = <<SkipMsg>>
  /\ \E q \in Paths(ast) :
       /\ NodeAt(ast, q).kind = "CodeBlock"
       /\ NodeAt(ast, q).kid = <<Skip, Continue>>
       /\ py_code[q \o <<1>>] = <<>>
       /\ py_code[q \o <<2>>] = <<"continue", NL>>

\* The hook a data spatial statement stands for, "" when the hook surface
\* has none for it.
HookOf(kind) ==
  CASE kind = "VisitStmt" -> "visit_node"
    [] kind = "IgnoreStmt" -> "ignore"
    [] kind = "DisengageStmt" -> "disengage"
    [] kind = "ReportStmt" -> "report"
    [] OTHER -> ""

\* C12: handling a data spatial statement (visit, revisit, ignore,
\* disengage, sync, report) emits a call of the runtime hook it stands for,
\* and records the data spatial warning only when that hook is absent from
\* the hook surface.
C12_DataSpatialCallsHook ==
  [][Handling(DataSpatialKinds) =>
       LET h == HookOf(NodeAt(ast, cur).kind)
       IN  /\ h \in Hooks => h \in Range(py_code'[cur])
           /\ DsMsg \in Range(Added(warnings, warnings')) => h \notin Hooks
    ]_vars

\* The signature of an ability node, None when it has none.
SignatureOf(node) ==
  IF node.kind \in {"ArchCan", "Ability"} THEN node.kid[4] ELSE None

\* C13: handling an event signature records the error and emits nothing, and
\* handling the ability that carries an event signature emits nothing either.
C13_EventAbilityEmitsNothing ==
  [][/\ Handling({"EventSignature"}) =>
          /\ EventMsg \in Range(Added(errors, errors'))
          /\ py_code'[cur] = <<>>
     /\ (/\ Handling({"ArchCan", "Ability"})
         /\ SignatureOf(NodeAt(ast, cur)).kind = "EventSignature") =>
          py_code'[cur] = <<>>
    ]_vars

\* The classes that carry an access specifier, and where it is among the
\* sub objects.
AccessKinds == {"GlobalVars", "Architype", "Ability", "ArchHas", "ArchCan"}
AccessKid(kind) ==
  CASE kind = "Architype" -> 4
    [] kind \in {"Ability", "ArchCan"} -> 3
    [] kind \in {"GlobalVars", "ArchHas"} -> 2
HasAccess(node) == node.kind \in AccessKinds /\ Present(node.kid[AccessKid(node.kind)])
\* The same node without the specifier.
Public(node) == [node EXCEPT !.kid[AccessKid(node.kind)] = None]

\* C14: handling a node records the access specifier warning exactly when
\* the node carries an access specifier, and the text it emits is the text
\* the same node without the specifier gets.
C14_AccessWarnsAndEmitsAsPublic ==
  [][(pc = "run" /\ phase = "exit") =>
       LET node == NodeAt(ast, cur)
       IN  /\ AccessMsg \in Range(Added(warnings, warnings')) <=> HasAccess(node)
           /\ HasAccess(node) =>
                py_code'[cur] = exit_code(py_code, cur, Public(node), indent_level)
    ]_vars

\* C15: no handler raises: whatever the tree, a Parse node included, every
\* handler records its diagnostic and returns, so the traversal never ends
\* by an exception.
C15_NoHandlerRaises == pc # "raised"

\* The passes a schedule execution has started, in the order of their start.
StartedEvents == SelectSeq(sched.log, LAMBDA e : e.ev = "start")
Started == [i \in DOMAIN StartedEvents |-> StartedEvents[i].pass]
\* The execution has ended: nothing runs and nothing is left to start.
ScheduleEnded ==
  /\ sched.name # "" /\ ~sched.running
  /\ sched.fatal \/ sched.next > Len(Schedules[sched.name])
\* The order of each schedule as the claim lists it.
ListedOrder(name) ==
  LET six == <<"SubNodeTabPass", "ImportPass", "SymTabBuildPass", "DeclDefMatchPass",
               "DefUsePass", "PyastGenPass">>
  IN  CASE name = "py_code_gen" -> six
        [] name = "py_compiler" -> six \o <<"PyOutPass">>
        [] name = "format_pass" -> <<"JacFormatPass">>
\* One pass at a time, in the listed order, none twice, and each start finds
\* on the AST the meta of every pass listed ahead of it.
RunsInListedOrder ==
  LET L == ListedOrder(sched.name)
  IN  /\ Len(Started) <= Len(L) /\ Started = SubSeq(L, 1, Len(Started))
      /\ \A i \in DOMAIN sched.log :
           /\ sched.log[i].ev = (IF i % 2 = 1 THEN "start" ELSE "finish")
           /\ i % 2 = 0 => sched.log[i].pass = sched.log[i - 1].pass
      /\ \A i \in DOMAIN StartedEvents :
           StartedEvents[i].seen = {L[j] : j \in 1..(i - 1)}

\* C16 as stated: in every schedule the passes run one at a time in the
\* listed order and, when the execution has ended, each has run exactly once.
C16_EveryPassRunsOnce ==
  sched.name # "" =>
    /\ RunsInListedOrder
    /\ ScheduleEnded => Started = ListedOrder(sched.name)

\* C16 amended: the passes run one at a time in the listed order, each at
\* most once, a pass starting only when every pass listed ahead of it has
\* finished and written its meta; each has run exactly once when the
\* execution has ended and no pass has recorded a fatal error.
C16_PassesRunInListedOrder ==
  sched.name # "" =>
    /\ RunsInListedOrder
    /\ (ScheduleEnded /\ ~sched.fatal) => Started = ListedOrder(sched.name)

\* C16 witness: py_compiler executed to its end, PyOutPass run last after
\* the six passes of py_code_gen, some pass having recorded errors.
C16_Witness ==
  /\ sched.name = "py_compiler" /\ ScheduleEnded /\ ~sched.fatal
  /\ Len(Started) = 7 /\ Started[7] = "PyOutPass"
  /\ \E i \in DOMAIN sched.log : sched.log[i].sink = "errors"

\* ---- C17 ----
FileCommands == {"run", "enter", "test"}
NotSourceFile == cli.command \in FileCommands /\ ~EndsWith(cli.arg, DotJac)
UnresolvedErrors == cli.command \in FileCommands /\ cli.ext = "none"
ToolFailedOrNotFound == cli.ext \in {"tool raises", "tool not found"}
CliFailure == NotSourceFile \/ UnresolvedErrors \/ ToolFailedOrNotFound
CliSuccess == cli.ext \in {"module", "returns", "passes", "tool returns"}
\* C17: when the process has ended, its exit code is 0 if the command
\* succeeded and is not 0 if the path was not a source file, if errors
\* remained unresolved, or if the AST tool failed or was not found.
C17_ExitCodeTellsFailure ==
  cli.pc = "exited" =>
    /\ CliSuccess => cli.exit_code = 0
    /\ CliFailure => cli.exit_code # 0

\* ---- C18 ----
GeneratedNames == {JAC_GEN_DIR, py_cache}
InGenerated(f, x) ==
  \E k \in 1..Len(x) : SubSeq(x, 1, k) \in f.dirs /\ x[k] \in GeneratedNames
CleanCompleted == cli.command = "clean" /\ cli.ext = "done"
\* C18: when clean has completed, no directory named __jac_gen__ or
\* __pycache__ is left at any depth, and the directories, files and links
\* left are exactly those of the start that were not inside such a directory.
C18_CleanRemovesGeneratedOnly ==
  CleanCompleted =>
    /\ \A d \in fs.dirs : Name(d) \notin GeneratedNames
    /\ fs.dirs = {d \in cli.fs0.dirs : ~InGenerated(cli.fs0, d)}
    /\ fs.files = {x \in cli.fs0.files : ~InGenerated(cli.fs0, x)}
    /\ fs.links = cli.fs0.links
\* clean has completed on a tree holding both kinds of directory, one of
\* them below a package whose own file is kept.
C18_Witness ==
  /\ CleanCompleted
  /\ <<"pkg", py_cache>> \in cli.fs0.dirs
  /\ <<JAC_GEN_DIR>> \in cli.fs0.dirs
  /\ <<JAC_GEN_DIR, "m.py">> \in cli.fs0.files
  /\ <<"pkg", "m.py">> \in fs.files
  /\ fs.dirs = {<<"pkg">>}

\* ---- C19 ----
TwelveHooks ==
  {"make_architype", "elvis", "report", "ignore", "visit_node", "disengage", "edge_ref",
   "connect", "disconnect", "assign_compr", "get_root", "build_edge"}
Called == feat.calls > 0
\* C19: the surface has exactly the twelve hooks; a call of one of them has
\* called the hook of the same name of the manager with each argument
\* under its parameter's name and nothing else, and has returned the
\* manager's result; the default implementation is registered throughout.
C19_CallsForwardedToSameHook ==
  /\ Hooks = TwelveHooks /\ Cardinality(Hooks) = 12
  /\ Default \in feat.registered
  /\ Called =>
       LET c == feat.last
       IN  /\ c.method \in Hooks
           /\ c.hook = c.method
           /\ DOMAIN c.kwargs = {Params(c.method)[i] : i \in 1..Len(Params(c.method))}
           /\ Len(c.args) = Len(Params(c.method))
           /\ \A i \in 1..Len(c.args) : c.kwargs[Params(c.method)[i]] = c.args[i]
           /\ c.returned = c.result
\* disconnect has been called with two different first arguments while an
\* alternative implementation is registered too.
C19_Witness ==
  /\ Called
  /\ feat.last.method = "disconnect"
  /\ feat.last.args = <<"a", "b", "a">>
  /\ feat.last.returned = "r2"
  /\ feat.registered = Plugins

\* ---- C21 ----
BlockStmtKinds ==
  {"IfStmt", "ElseStmt", "WhileStmt", "InForStmt", "DictForStmt", "IterForStmt", "TryStmt"}
\* where the statement's body is among its sub objects
BodyIndex(kind) ==
  CASE kind \in {"ElseStmt", "TryStmt"} -> 1
    [] kind \in {"IfStmt", "WhileStmt"} -> 2
    [] kind = "InForStmt" -> 3
    [] kind \in {"DictForStmt", "IterForStmt"} -> 4
\* the indentation of the statement's header: its first line that is not blank
HeaderIndent(t) == LeadingSpaces(NotBlankLines(Lines(t))[1])
\* Every line of every statement of the body stands in the text of the
\* statement at q, n spaces deeper than the header.
BodyDeeperBy(q, n) ==
  LET body == q \o <<BodyIndex(NodeAt(ast, q).kind)>>
      own == Range(Lines(py_code[q]))
  IN  \A i \in DOMAIN NodeAt(ast, body).kid :
        \A l \in Range(NotBlankLines(Lines(py_code[body \o <<i>>]))) :
          Spaces(HeaderIndent(py_code[q]) + n) \o l \in own
\* C21: when the pass has ended, in the text of every If, Else, While,
\* InFor, DictFor, IterFor and Try statement, at every nesting depth, each
\* line of each statement of the body is indented one level (indent_size
\* spaces) deeper than the header line.
C21_BodyOneLevelDeeper ==
  pc = "done" =>
    \A q \in Paths(ast) :
      NodeAt(ast, q).kind \in BlockStmtKinds => BodyDeeperBy(q, indent_size)

====
